---- MODULE Spec2Model ----
(***************************************************************************)
(* LogStream: the bounded indexed store (MemoryStore), the ingestion       *)
(* dispatcher (Ingestor) and the sliding-window alert evaluator            *)
(* (AlertManager), modelled from internal/alerting/alert_manager.go, which *)
(* holds the three packages alerting, storage and ingestion.               *)
(*                                                                         *)
(* Specifications:                                                         *)
(*   SpecStore  Store calls and reads of one MemoryStore, each call one    *)
(*              step (the store's lock makes every call atomic).           *)
(*   SpecLock   the same Store call split at its statements, with the      *)
(*              store's RWMutex, several writers and a reader.             *)
(*   Spec       the Ingestor: producers, the queue, the workers and Stop.  *)
(*   SpecAlert  the AlertManager: AddRule, ProcessLog and the clock.       *)
(*   SpecAlias  the MemoryStore with the backing arrays of its slices and  *)
(*              a caller writing into the result of a read.                *)
(*   SpecEmit   the AlertManager filling its alert channel, with the       *)
(*              consumer loop and Stop.                                    *)
(*   SpecLoop   the consumer loop and its callbacks, which may return or   *)
(*              panic; SpecLoopFair adds a fair scheduler.                 *)
(*   SpecRun    the Ingestor while Stop is never called, the workers       *)
(*              scheduled fairly; SpecStop is Spec with fair scheduling    *)
(*              and a fair choice among the ready cases of a select.       *)
(*   SpecMutex  the store's two locks and the evaluator's lock, each Lock, *)
(*              RLock and unlock one step; SpecMutexFair adds a fair       *)
(*              scheduler.                                                 *)
(***************************************************************************)
EXTENDS Integers, Sequences, FiniteSets, TLC

VARIABLES
    \* MemoryStore
    logs,           \* ms.logs
    indexByLevel,   \* ms.indexByLevel: level -> positions (0-based)
    buckets,        \* ms.indexByTime.buckets: minute bucket -> positions
    maxLogs,        \* ms.maxLogs
    inserted,       \* history: every entry passed to Store, in lock order
    lastRead,       \* history: the latest read call and what it returned
    \* the store's lock and the callers inside Store (SpecLock)
    muWriter,       \* ms.mu: the writer holding it, 0 when none
    muReaders,      \* ms.mu: the readers holding it
    wpc,            \* per writer: its position in Store
    wentry,         \* per writer: the entry it is storing
    widx,           \* per writer: idx, the position it computed
    rpc,            \* per reader: its position in GetByLevel
    rlocal,         \* per reader: level, the indices it read, its result
    muPending,      \* ms.mu: the writer whose Lock() is announced or held, 0 when none
    idxWriter,      \* ms.indexByTime.mu: the writer holding it, 0 when none
    idxReaders,     \* ms.indexByTime.mu: the readers holding it
    amHolder,       \* am.mu: the worker holding it, 0 when none
    \* AlertManager
    rules,          \* am.rules
    recentLogs,     \* am.recentLogs
    alertChannel,   \* am.alertChannel: the alerts buffered in it
    alertClosed,    \* am.alertChannel has been closed
    now,            \* the clock, time.Now(), in seconds
    processCalls,   \* history: the number of ProcessLog calls made
    lastProcess,    \* history: the latest ProcessLog call and what it did
    \* Ingestor
    logChannel,     \* ing.logChannel: the entries buffered in it
    bufferSize,     \* the capacity of ing.logChannel
    logClosed,      \* ing.logChannel has been closed
    shutdown,       \* ing.shutdown has been closed
    workerCount,    \* ing.workerCount
    wg,             \* ing.wg: its counter
    started,        \* Start has been called
    kpc,            \* per worker: its position in worker()
    klog,           \* per worker: log, the entry it received
    TotalProcessed, \* ing.stats.TotalProcessed
    TotalDropped,   \* ing.stats.TotalDropped
    stopPc,         \* the position of the caller of Stop
    ingestCalls,    \* history: the number of Ingest calls made
    accepted,       \* history: the IDs of the entries Ingest returned true for
    rejected,       \* history: the number of Ingest calls that returned false
    lastIngest,     \* history: the latest Ingest call and its outcome
    counted,        \* history: the IDs of the entries counted as processed
    phantoms,       \* history: the receives from the closed queue
    \* AlertManager: the consumer loop and the callbacks it starts
    loopPc,         \* the position of the goroutine running processAlerts
    callbacks,      \* the goroutines started by go am.alertCallback(alert)
    crashed,        \* the process was ended by an unrecovered panic
    sentAlerts,     \* history: the alerts accepted into am.alertChannel
    \* MemoryStore: the backing arrays of its slices
    arrays,         \* the heap: the backing arrays allocated so far
    logsArr,        \* the array ms.logs points into
    logsOff,        \* the offset of ms.logs[0] in that array
    held            \* the slice a read returned to its caller

storeVars == <<logs, indexByLevel, buckets, maxLogs, inserted, lastRead>>
mutexVars == <<muPending, idxWriter, idxReaders, amHolder>>
lockVars == <<muWriter, muReaders, wpc, wentry, widx, rpc, rlocal, mutexVars>>
alertVars == <<rules, recentLogs, alertChannel, alertClosed, now,
               processCalls, lastProcess>>
ingestVars == <<logChannel, bufferSize, logClosed, shutdown, workerCount, wg,
                started, kpc, klog, TotalProcessed, TotalDropped, stopPc,
                ingestCalls, accepted, rejected, lastIngest, counted, phantoms>>
loopVars == <<loopPc, callbacks, crashed, sentAlerts>>
aliasVars == <<arrays, logsArr, logsOff, held>>
vars == <<storeVars, lockVars, alertVars, ingestVars, loopVars, aliasVars>>

---------------------------------------------------------------------------
(* Bounds of the model *)

\* SpecStore: the store capacities tried are 1..MaxCapacity.
MaxCapacity == 5
\* SpecStore: the number of Store calls in one run.
MaxStores == 6
\* the largest n of GetRecent(n)
MaxRecent == 3
\* SpecLock: the concurrent callers of Store and of GetByLevel
NumWriters == 2
NumReaders == 1
\* Spec: the queue capacities tried are 1..MaxBuffer, the worker counts
\* 0..MaxWorkers; the Ingest calls; the receives from the closed queue
MaxBuffer == 1
MaxWorkers == 2
MaxIngest == 2
MaxPhantoms == 1
\* SpecAlert: the rules added, the ProcessLog calls and the clock ticks
MaxRules == 2
MaxProcess == 3
MaxTicks == 2
\* SpecEmit: the ProcessLog calls, enough to fill the alert channel and
\* overflow it
MaxEmit == 52
\* SpecLoop: the ProcessLog calls
MaxLoopCalls == 3
\* SpecAlias: the Store calls
MaxAliasStores == 3

(* Program constants *)

\* evictOldest: ms.maxLogs / 5
EvictDivisor == 5
\* Store: entry.Timestamp.Unix() / 60
BucketSeconds == 60
\* getMaxWindow: max := time.Minute, in seconds
Minute == 60
\* NewAlertManager: make(chan Alert, 100)
AlertChannelCap == 100

NoLevel == ""
Levels == {"INFO", "ERROR"}
\* a level no stored entry has
QueryLevels == Levels \cup {"WARNING"}
\* timestamps in Unix seconds: two bucket starts, one bucket-width apart
Timestamps == {BucketSeconds, 2 * BucketSeconds}
\* the bounds of time-range queries: the bucket starts and a second inside
QueryTimes == Timestamps \cup {BucketSeconds + 1}
\* the (level, timestamp) pairs of the entries stored: two levels in one
\* bucket, one level in two buckets
EntryKinds ==
    {<<"INFO", BucketSeconds>>, <<"ERROR", BucketSeconds>>,
     <<"ERROR", 2 * BucketSeconds>>}

\* models.LogEntry, the fields the core reads
LogEntry(id, level, ts, msg) ==
    [id |-> id, level |-> level, timestamp |-> ts, message |-> msg]

NoEntry == LogEntry(0, NoLevel, 0, <<>>)

---------------------------------------------------------------------------
(* Go's integer division truncates toward zero *)
GoDiv(a, b) ==
    IF a >= 0 THEN a \div b ELSE -((-a) \div b)

\* a Go map read: the zero value (a nil slice) for a missing key
MapGet(m, k) ==
    IF k \in DOMAIN m THEN m[k] ELSE <<>>

\* m[k] = append(m[k], v)
MapAppend(m, k, v) ==
    [x \in (DOMAIN m) \cup {k} |->
        IF x = k THEN Append(MapGet(m, k), v) ELSE m[x]]

\* make(map[...][]int)
EmptyMap == [x \in {} |-> <<>>]

\* entry.Timestamp.Unix() / 60
TimeBucket(ts) == GoDiv(ts, BucketSeconds)

\* ms.logs[idx], idx 0-based
LogAt(l, idx) == l[idx + 1]

---------------------------------------------------------------------------
(* MemoryStore.rebuildIndices: both maps emptied, then filled position by
   position over ms.logs *)
RECURSIVE RebuildFrom(_, _, _)
RebuildFrom(l, idx, acc) ==
    IF idx >= Len(l) THEN acc
    ELSE RebuildFrom(l, idx + 1,
            [byLevel |-> MapAppend(acc.byLevel, LogAt(l, idx).level, idx),
             byTime |-> MapAppend(acc.byTime,
                                  TimeBucket(LogAt(l, idx).timestamp), idx)])

rebuildIndices(l) ==
    RebuildFrom(l, 0, [byLevel |-> EmptyMap, byTime |-> EmptyMap])

\* evictOldest: evictCount := ms.maxLogs / 5
evictCount(max) == GoDiv(max, EvictDivisor)

\* evictOldest dropping the newest entries instead of the oldest
evictSlice_Newest(l, max) == SubSeq(l, 1, Len(l) - evictCount(max))

\* evictOldest: ms.logs = ms.logs[evictCount:]
evictSlice(l, max) == SubSeq(l, evictCount(max) + 1, Len(l))

\* Store: if len(ms.logs) > ms.maxLogs
mustEvict(l, max) == Len(l) > max

\* Store with the eviction's index rebuild left out
StoreResult_NoRebuild(l, byLevel, byTime, max, entry) ==
    LET idx == Len(l)
        l1 == Append(l, entry)
        lv1 == MapAppend(byLevel, entry.level, idx)
        bt1 == MapAppend(byTime, TimeBucket(entry.timestamp), idx)
    IN  [logs |-> IF mustEvict(l1, max) THEN evictSlice(l1, max) ELSE l1,
         byLevel |-> lv1, byTime |-> bt1]

\* Store putting the entry in front of the sequence
StoreResult_Prepend(l, byLevel, byTime, max, entry) ==
    LET l1 == <<entry>> \o l
        r == rebuildIndices(l1)
    IN  [logs |-> l1, byLevel |-> r.byLevel, byTime |-> r.byTime]

(* MemoryStore.Store as one step: what the store holds when the call
   returns *)
StoreResult(l, byLevel, byTime, max, entry) ==
    LET idx == Len(l)
        l1 == Append(l, entry)
        lv1 == MapAppend(byLevel, entry.level, idx)
        bt1 == MapAppend(byTime, TimeBucket(entry.timestamp), idx)
    IN  IF mustEvict(l1, max)
        THEN LET l2 == evictSlice(l1, max)
                 r == rebuildIndices(l2)
             IN [logs |-> l2, byLevel |-> r.byLevel, byTime |-> r.byTime]
        ELSE [logs |-> l1, byLevel |-> lv1, byTime |-> bt1]

---------------------------------------------------------------------------
(* The reads *)

\* GetByLevel: for _, idx := range indices { if idx < len(ms.logs) { append } }
RECURSIVE CollectValid(_, _, _)
CollectValid(l, indices, i) ==
    IF i > Len(indices) THEN <<>>
    ELSE LET idx == indices[i]
             rest == CollectValid(l, indices, i + 1)
         IN IF idx < Len(l) THEN <<LogAt(l, idx)>> \o rest ELSE rest

GetByLevel(l, byLevel, level) ==
    CollectValid(l, MapGet(byLevel, level), 1)

\* the range test with the end bound exclusive
inRange_Exclusive(e, start, end) ==
    ~(e.timestamp < start) /\ e.timestamp < end

\* !log.Timestamp.Before(start) && !log.Timestamp.After(end)
inRange(e, start, end) ==
    ~(e.timestamp < start) /\ ~(e.timestamp > end)

\* GetByTimeRange: the loop over one bucket's indices
RECURSIVE CollectInRange(_, _, _, _, _)
CollectInRange(l, indices, i, start, end) ==
    IF i > Len(indices) THEN <<>>
    ELSE LET idx == indices[i]
             rest == CollectInRange(l, indices, i + 1, start, end)
         IN IF idx < Len(l) /\ inRange(LogAt(l, idx), start, end)
            THEN <<LogAt(l, idx)>> \o rest
            ELSE rest

\* for bucket := startBucket; bucket <= endBucket; bucket++
RECURSIVE RangeFrom(_, _, _, _, _, _)
RangeFrom(l, byTime, bucket, endBucket, start, end) ==
    IF bucket > endBucket THEN <<>>
    ELSE (IF bucket \in DOMAIN byTime
          THEN CollectInRange(l, byTime[bucket], 1, start, end)
          ELSE <<>>)
         \o RangeFrom(l, byTime, bucket + 1, endBucket, start, end)

GetByTimeRange(l, byTime, start, end) ==
    RangeFrom(l, byTime, TimeBucket(start), TimeBucket(end), start, end)

\* GetRecent returning the oldest n entries
GetRecent_Oldest(l, n) ==
    SubSeq(l, 1, IF n > Len(l) THEN Len(l) ELSE n)

\* start := len(ms.logs) - n; if start < 0 { start = 0 }; ms.logs[start:]
GetRecent(l, n) ==
    LET start == IF Len(l) - n < 0 THEN 0 ELSE Len(l) - n
    IN SubSeq(l, start + 1, Len(l))

Count(l) == Len(l)

---------------------------------------------------------------------------
(* AlertManager *)

\* contains: for i := 0; i <= len(s)-len(substr); i++ { s[i:i+len] == substr }
contains(str, substr) ==
    \E i \in 0..(Len(str) - Len(substr)) :
        SubSeq(str, i + 1, i + Len(substr)) = substr

\* containsPattern
containsPattern(message, pattern) ==
    \/ Len(pattern) = 0
    \/ Len(message) >= Len(pattern) /\ contains(message, pattern)

\* getMaxWindow: the widest rule window, at least one minute
RECURSIVE MaxWindowFrom(_, _, _)
MaxWindowFrom(rs, i, max) ==
    IF i > Len(rs) THEN max
    ELSE MaxWindowFrom(rs, i + 1, IF rs[i].window > max THEN rs[i].window ELSE max)

getMaxWindow(rs) == MaxWindowFrom(rs, 1, Minute)

\* cleanOldLogs: keeps the entries with timestamp.After(cutoff)
cleanOldLogs(recent, cutoff) ==
    SelectSeq(recent, LAMBDA e : e.timestamp > cutoff)

\* shouldTriggerAlert: the entries it counts for a rule at clock value t
countedFor(rule, recent, t) ==
    SelectSeq(recent, LAMBDA e :
        /\ e.timestamp > t - rule.window
        /\ e.level = rule.level
        /\ (rule.pattern = <<>> \/ containsPattern(e.message, rule.pattern)))

shouldTriggerAlert(rule, recent, t) ==
    Len(countedFor(rule, recent, t)) >= rule.threshold

\* ProcessLog: the Alert built for a rule
NewAlert(rule, t) ==
    [ruleName |-> rule.name, threshold |-> rule.threshold,
     level |-> rule.level, window |-> rule.window,
     count |-> rule.threshold, timestamp |-> t]

(* ProcessLog: the loop over am.rules from rule i on. acc holds the channel,
   the rules for which a send was attempted, those whose alert was
   discarded (channel full), and whether a send hit the closed channel: a
   send on a closed channel panics and the call ends there. *)
RECURSIVE CheckRules(_, _, _, _, _, _)
CheckRules(rs, i, recent, t, closed, acc) ==
    IF i > Len(rs) \/ acc.panicked THEN acc
    ELSE IF ~shouldTriggerAlert(rs[i], recent, t)
         THEN CheckRules(rs, i + 1, recent, t, closed, acc)
         ELSE CheckRules(rs, i + 1, recent, t, closed,
                IF closed
                THEN [acc EXCEPT !.attempts = Append(@, i), !.panicked = TRUE]
                ELSE IF Len(acc.chan) < AlertChannelCap
                     THEN [acc EXCEPT !.attempts = Append(@, i),
                                      !.chan = Append(@, NewAlert(rs[i], t)),
                                      !.sent = Append(@, NewAlert(rs[i], t))]
                     ELSE [acc EXCEPT !.attempts = Append(@, i),
                                      !.discarded = Append(@, i)])

\* AlertManager.ProcessLog(log) at clock value t, under am.mu
ProcessLogResult(rs, recent, chan, closed, t, log) ==
    LET appended == Append(recent, [timestamp |-> log.timestamp,
                                    level |-> log.level,
                                    message |-> log.message])
        kept == cleanOldLogs(appended, t - getMaxWindow(rs))
        acc == CheckRules(rs, 1, kept, t, closed,
                          [chan |-> chan, attempts |-> <<>>, sent |-> <<>>,
                           discarded |-> <<>>, panicked |-> FALSE])
    IN [recent |-> kept, chan |-> acc.chan, attempts |-> acc.attempts,
        sent |-> acc.sent, discarded |-> acc.discarded,
        panicked |-> acc.panicked]

\* why the process ended: an unrecovered panic in a goroutine ends the program
NoCrash == "none"
SendOnClosed == "send on closed channel"
CallbackPanic == "panic in a callback"

NoProcess ==
    [log |-> NoEntry, at |-> 0, attempts |-> <<>>, discarded |-> <<>>,
     panicked |-> FALSE]

\* NewAlertManager(callback)
NewAlertManager ==
    /\ rules = <<>>
    /\ recentLogs = <<>>
    /\ alertChannel = <<>>
    /\ alertClosed = FALSE
    /\ processCalls = 0
    /\ lastProcess = NoProcess
    /\ loopPc = "new"
    /\ callbacks = <<>>
    /\ crashed = NoCrash
    /\ sentAlerts = <<>>

---------------------------------------------------------------------------
(* Ingestor *)

\* the zero time.Time a receive from a closed channel yields: year 1, far
\* before every other timestamp (its Unix seconds do not fit the model's
\* integers)
ZeroTime == -(1000 * Minute)

\* the zero models.LogEntry
ZeroEntry == LogEntry(0, NoLevel, ZeroTime, <<>>)

\* NewIngestor(store, alertMgr, workerCount, bufferSize)
NewIngestor(workers, size) ==
    /\ logChannel = <<>>
    /\ bufferSize = size
    /\ logClosed = FALSE
    /\ shutdown = FALSE
    /\ workerCount = workers
    /\ wg = 0
    /\ started = FALSE
    /\ kpc = [w \in 1..workers |-> "new"]
    /\ klog = [w \in 1..workers |-> NoEntry]
    /\ TotalProcessed = 0
    /\ TotalDropped = 0
    /\ stopPc = "idle"
    /\ ingestCalls = 0
    /\ accepted = <<>>
    /\ rejected = 0
    /\ lastIngest = [entry |-> NoEntry, result |-> "none"]
    /\ counted = <<>>
    /\ phantoms = 0

(* Ingest: select { case ing.logChannel <- entry: ... default: ... }. A send
   on a closed channel panics, also inside a select with a default case. *)
IngestOutcome(chan, size, closed) ==
    IF closed THEN "panic"
    ELSE IF Len(chan) < size THEN "true"
    ELSE "false"

\* Stop returning without waiting for the workers
WaitDone_NoWait == TRUE

\* Stop: ing.wg.Wait() returns when the counter is zero
WaitDone == wg = 0

\* worker skipping Store and ProcessLog for the entry it received
AfterReceive_SkipStore == "count"

\* worker: the first statement of case log := <-ing.logChannel
AfterReceive == "store"

\* worker returning after the first entry it has counted
AfterCount_Return == "exited"

\* worker: for { select { ... } }, the loop goes back to the select
AfterCount == "select"

\* worker: case log := <-ing.logChannel is ready when the queue holds an
\* entry or is closed
CanReceive == Len(logChannel) > 0 \/ logClosed

\* worker: case <-ing.shutdown is ready when shutdown is closed
CanShutdown == shutdown

---------------------------------------------------------------------------
(* SpecStore: one MemoryStore, each call one step *)

NoRead == [op |-> "none", arg |-> <<>>, result |-> <<>>]

\* the evaluator and the ingestor a store specification leaves alone
InitRest ==
    /\ NewAlertManager
    /\ now = 0
    /\ NewIngestor(0, 1)

InitLock ==
    /\ muWriter = 0
    /\ muReaders = {}
    /\ wpc = <<>>
    /\ wentry = <<>>
    /\ widx = <<>>
    /\ rpc = <<>>
    /\ rlocal = <<>>
    /\ muPending = 0
    /\ idxWriter = 0
    /\ idxReaders = {}
    /\ amHolder = 0

\* make([]models.LogEntry, 0, n): a fresh backing array of n zero cells
NewArray(n) == [i \in 1..n |-> NoEntry]

\* no slice is held by a caller
NoSlice == [op |-> "none", arr |-> 0, off |-> 0, len |-> 0]

\* NewMemoryStore(maxLogs); ms.logs is make([]models.LogEntry, 0, maxLogs)
NewMemoryStore(max) ==
    /\ logs = <<>>
    /\ indexByLevel = EmptyMap
    /\ buckets = EmptyMap
    /\ maxLogs = max
    /\ inserted = <<>>
    /\ lastRead = NoRead
    /\ arrays = <<NewArray(max)>>
    /\ logsArr = 1
    /\ logsOff = 0
    /\ held = NoSlice

InitStore ==
    /\ \E max \in 1..MaxCapacity : NewMemoryStore(max)
    /\ InitLock
    /\ InitRest

\* a caller's Store(entry); the entry's ID is its number in call order
DoStore(level, ts) ==
    /\ Len(inserted) < MaxStores
    /\ LET entry == LogEntry(Len(inserted) + 1, level, ts, <<>>)
           r == StoreResult(logs, indexByLevel, buckets, maxLogs, entry)
       IN /\ logs' = r.logs
          /\ indexByLevel' = r.byLevel
          /\ buckets' = r.byTime
          /\ inserted' = Append(inserted, entry)
    /\ lastRead' = NoRead
    /\ UNCHANGED <<maxLogs, lockVars, alertVars, ingestVars,
                   loopVars, aliasVars>>

DoGetByLevel(level) ==
    /\ lastRead' = [op |-> "GetByLevel", arg |-> <<level>>,
                    result |-> GetByLevel(logs, indexByLevel, level)]
    /\ UNCHANGED <<logs, indexByLevel, buckets, maxLogs, inserted, lockVars,
                   alertVars, ingestVars,
                   loopVars, aliasVars>>

DoGetByTimeRange(start, end) ==
    /\ lastRead' = [op |-> "GetByTimeRange", arg |-> <<start, end>>,
                    result |-> GetByTimeRange(logs, buckets, start, end)]
    /\ UNCHANGED <<logs, indexByLevel, buckets, maxLogs, inserted, lockVars,
                   alertVars, ingestVars,
                   loopVars, aliasVars>>

DoGetRecent(n) ==
    /\ lastRead' = [op |-> "GetRecent", arg |-> <<n>>,
                    result |-> GetRecent(logs, n)]
    /\ UNCHANGED <<logs, indexByLevel, buckets, maxLogs, inserted, lockVars,
                   alertVars, ingestVars,
                   loopVars, aliasVars>>

DoCount ==
    /\ lastRead' = [op |-> "Count", arg |-> <<>>, result |-> Count(logs)]
    /\ UNCHANGED <<logs, indexByLevel, buckets, maxLogs, inserted, lockVars,
                   alertVars, ingestVars,
                   loopVars, aliasVars>>

NextStore ==
    \/ \E k \in EntryKinds : DoStore(k[1], k[2])
    \/ \E level \in QueryLevels : DoGetByLevel(level)
    \/ \E start \in QueryTimes, end \in QueryTimes : DoGetByTimeRange(start, end)
    \/ \E n \in 0..MaxRecent : DoGetRecent(n)
    \/ DoCount

SpecStore == InitStore /\ [][NextStore]_vars

---------------------------------------------------------------------------
(* SpecLock: Store split at its statements, under ms.mu (a sync.RWMutex).
   A writer holds the lock from Lock() to the deferred Unlock(); a reader
   holds it from RLock() to the deferred RUnlock(). *)

Writers == 1..NumWriters
Readers == 1..NumReaders

NoLocal == [level |-> NoLevel, indices |-> <<>>, result |-> <<>>]

\* a reader takes the lock with no regard for a writer holding it
CanRLock_NoExclusion == TRUE

\* ms.mu.RLock() returns only while no writer holds ms.mu
CanRLock == muWriter = 0

\* ms.mu.Lock() returns only while nobody holds ms.mu
CanLock == muWriter = 0 /\ muReaders = {}

InitStoreLock ==
    /\ \E max \in EvictDivisor..MaxCapacity : NewMemoryStore(max)
    /\ muWriter = 0
    /\ muReaders = {}
    /\ wpc = [w \in Writers |-> "idle"]
    /\ wentry = [w \in Writers |-> NoEntry]
    /\ widx = [w \in Writers |-> 0]
    /\ rpc = [r \in Readers |-> "idle"]
    /\ rlocal = [r \in Readers |-> NoLocal]
    /\ muPending = 0
    /\ idxWriter = 0
    /\ idxReaders = {}
    /\ amHolder = 0
    /\ InitRest

\* Store: ms.mu.Lock()
WLock(w, level, ts) ==
    /\ wpc[w] = "idle"
    /\ Len(inserted) < MaxStores
    /\ CanLock
    /\ muWriter' = w
    /\ wentry' = [wentry EXCEPT ![w] = LogEntry(Len(inserted) + 1, level, ts, <<>>)]
    /\ inserted' = Append(inserted, wentry'[w])
    /\ wpc' = [wpc EXCEPT ![w] = "append"]
    /\ UNCHANGED <<logs, indexByLevel, buckets, maxLogs, lastRead,
                   muReaders, widx, rpc, rlocal, alertVars, ingestVars,
                   loopVars, aliasVars, mutexVars>>

\* Store: idx := len(ms.logs); ms.logs = append(ms.logs, entry)
WAppend(w) ==
    /\ wpc[w] = "append"
    /\ widx' = [widx EXCEPT ![w] = Len(logs)]
    /\ logs' = Append(logs, wentry[w])
    /\ wpc' = [wpc EXCEPT ![w] = "indexLevel"]
    /\ UNCHANGED <<indexByLevel, buckets, maxLogs, inserted, lastRead,
                   muWriter, muReaders, wentry, rpc, rlocal, alertVars, ingestVars,
                   loopVars, aliasVars, mutexVars>>

\* Store: ms.indexByLevel[entry.Level] = append(..., idx)
WIndexLevel(w) ==
    /\ wpc[w] = "indexLevel"
    /\ indexByLevel' = MapAppend(indexByLevel, wentry[w].level, widx[w])
    /\ wpc' = [wpc EXCEPT ![w] = "indexTime"]
    /\ UNCHANGED <<logs, buckets, maxLogs, inserted, lastRead,
                   muWriter, muReaders, wentry, widx, rpc, rlocal, alertVars, ingestVars,
                   loopVars, aliasVars, mutexVars>>

\* Store: ms.indexByTime.buckets[timeBucket] = append(..., idx)
WIndexTime(w) ==
    /\ wpc[w] = "indexTime"
    /\ buckets' = MapAppend(buckets, TimeBucket(wentry[w].timestamp), widx[w])
    /\ wpc' = [wpc EXCEPT ![w] = "check"]
    /\ UNCHANGED <<logs, indexByLevel, maxLogs, inserted, lastRead,
                   muWriter, muReaders, wentry, widx, rpc, rlocal, alertVars, ingestVars,
                   loopVars, aliasVars, mutexVars>>

\* Store: if len(ms.logs) > ms.maxLogs { evictOldest: the slice }
WEvict(w) ==
    /\ wpc[w] = "check"
    /\ IF mustEvict(logs, maxLogs)
       THEN /\ logs' = evictSlice(logs, maxLogs)
            /\ wpc' = [wpc EXCEPT ![w] = "rebuild"]
       ELSE /\ logs' = logs
            /\ wpc' = [wpc EXCEPT ![w] = "unlock"]
    /\ UNCHANGED <<indexByLevel, buckets, maxLogs, inserted, lastRead,
                   muWriter, muReaders, wentry, widx, rpc, rlocal, alertVars, ingestVars,
                   loopVars, aliasVars, mutexVars>>

\* evictOldest: ms.rebuildIndices()
WRebuild(w) ==
    /\ wpc[w] = "rebuild"
    /\ indexByLevel' = rebuildIndices(logs).byLevel
    /\ buckets' = rebuildIndices(logs).byTime
    /\ wpc' = [wpc EXCEPT ![w] = "unlock"]
    /\ UNCHANGED <<logs, maxLogs, inserted, lastRead,
                   muWriter, muReaders, wentry, widx, rpc, rlocal, alertVars, ingestVars,
                   loopVars, aliasVars, mutexVars>>

\* Store: the deferred ms.mu.Unlock()
WUnlock(w) ==
    /\ wpc[w] = "unlock"
    /\ muWriter' = 0
    /\ wpc' = [wpc EXCEPT ![w] = "idle"]
    /\ wentry' = [wentry EXCEPT ![w] = NoEntry]
    /\ widx' = [widx EXCEPT ![w] = 0]
    /\ UNCHANGED <<storeVars, muReaders, rpc, rlocal, alertVars, ingestVars,
                   loopVars, aliasVars, mutexVars>>

\* GetByLevel: ms.mu.RLock()
RLock(r, level) ==
    /\ rpc[r] = "idle"
    /\ CanRLock
    /\ muReaders' = muReaders \cup {r}
    /\ rlocal' = [rlocal EXCEPT ![r] = [NoLocal EXCEPT !.level = level]]
    /\ rpc' = [rpc EXCEPT ![r] = "indices"]
    /\ UNCHANGED <<storeVars, muWriter, wpc, wentry, widx, alertVars, ingestVars,
                   loopVars, aliasVars, mutexVars>>

\* GetByLevel: indices := ms.indexByLevel[level]
RIndices(r) ==
    /\ rpc[r] = "indices"
    /\ rlocal' = [rlocal EXCEPT ![r].indices = MapGet(indexByLevel, rlocal[r].level)]
    /\ rpc' = [rpc EXCEPT ![r] = "collect"]
    /\ UNCHANGED <<storeVars, muWriter, muReaders, wpc, wentry, widx, alertVars, ingestVars,
                   loopVars, aliasVars, mutexVars>>

\* GetByLevel: the loop over indices
RCollect(r) ==
    /\ rpc[r] = "collect"
    /\ rlocal' = [rlocal EXCEPT ![r].result = CollectValid(logs, rlocal[r].indices, 1)]
    /\ rpc' = [rpc EXCEPT ![r] = "unlock"]
    /\ UNCHANGED <<storeVars, muWriter, muReaders, wpc, wentry, widx, alertVars, ingestVars,
                   loopVars, aliasVars, mutexVars>>

\* GetByLevel: the deferred ms.mu.RUnlock()
RUnlock(r) ==
    /\ rpc[r] = "unlock"
    /\ muReaders' = muReaders \ {r}
    /\ rpc' = [rpc EXCEPT ![r] = "idle"]
    /\ rlocal' = [rlocal EXCEPT ![r] = NoLocal]
    /\ UNCHANGED <<storeVars, muWriter, wpc, wentry, widx, alertVars, ingestVars,
                   loopVars, aliasVars, mutexVars>>

NextStoreLock ==
    \/ \E w \in Writers, k \in EntryKinds : WLock(w, k[1], k[2])
    \/ \E w \in Writers : WAppend(w)
    \/ \E w \in Writers : WIndexLevel(w)
    \/ \E w \in Writers : WIndexTime(w)
    \/ \E w \in Writers : WEvict(w)
    \/ \E w \in Writers : WRebuild(w)
    \/ \E w \in Writers : WUnlock(w)
    \/ \E r \in Readers, level \in Levels : RLock(r, level)
    \/ \E r \in Readers : RIndices(r)
    \/ \E r \in Readers : RCollect(r)
    \/ \E r \in Readers : RUnlock(r)

SpecLock == InitStoreLock /\ [][NextStoreLock]_vars

---------------------------------------------------------------------------
(* SpecMutex: the three locks. Workers call Store and then ProcessLog,
   readers call the four reads; every Lock, RLock and unlock is a step *)

ReadOps == {"GetByLevel", "GetByTimeRange", "GetRecent", "Count"}

NoOp == "none"

\* the calls of Store that have not appended yet
StoreCallsPending ==
    Cardinality({w \in Writers : wpc[w] \in {"lock", "drain"}})

\* sync.RWMutex.Lock: one writer at a time announces itself
CanAnnounce == muPending = 0

\* sync.RWMutex.Lock: the announced writer waits for the readers to leave
CanWrite == muReaders = {}

\* sync.RWMutex.RLock: blocks while a writer is announced or holds the lock
CanRead == muPending = 0

\* ms.indexByTime.mu.Lock()
CanIdxLock == idxWriter = 0 /\ idxReaders = {}

\* ms.indexByTime.mu.RLock()
CanIdxRLock == idxWriter = 0

\* am.mu.Lock()
CanAmLock == amHolder = 0

\* GetByTimeRange taking only the time index's lock
TimeRangeFirst_InnerOnly == "idxRLock"

\* GetByTimeRange: its first statement, ms.mu.RLock()
TimeRangeFirst == "rlock"

\* where Store or rebuildIndices goes on once it holds ms.indexByTime.mu
AfterIdxLock(pc) ==
    CASE pc = "idxLock" -> "idxAppend"
      [] pc = "resetLock" -> "reset"
      [] pc = "loopLock" -> "loopAppend"

InitMutex ==
    /\ NewMemoryStore(MaxCapacity)
    /\ muWriter = 0
    /\ muReaders = {}
    /\ wpc = [w \in Writers |-> "idle"]
    /\ wentry = [w \in Writers |-> NoEntry]
    /\ widx = [w \in Writers |-> 0]
    /\ rpc = [r \in Readers |-> "idle"]
    /\ rlocal = [r \in Readers |-> NoOp]
    /\ muPending = 0
    /\ idxWriter = 0
    /\ idxReaders = {}
    /\ amHolder = 0
    /\ InitRest

\* worker: ing.store.Store(log) is called
MStoreCall(w) ==
    /\ wpc[w] = "idle"
    /\ Len(inserted) + StoreCallsPending < MaxStores
    /\ wentry' = [wentry EXCEPT ![w] = LogEntry(1, "ERROR", now, <<>>)]
    /\ wpc' = [wpc EXCEPT ![w] = "lock"]
    /\ UNCHANGED <<storeVars, muWriter, muReaders, widx, rpc, rlocal,
                   mutexVars, alertVars, ingestVars, loopVars, aliasVars>>

\* Store: ms.mu.Lock(), the writer announces itself
MAnnounce(w) ==
    /\ wpc[w] = "lock"
    /\ CanAnnounce
    /\ muPending' = w
    /\ wpc' = [wpc EXCEPT ![w] = "drain"]
    /\ UNCHANGED <<storeVars, muWriter, muReaders, wentry, widx, rpc, rlocal,
                   idxWriter, idxReaders, amHolder, alertVars, ingestVars,
                   loopVars, aliasVars>>

\* Store: ms.mu.Lock() returns
MAcquire(w) ==
    /\ wpc[w] = "drain"
    /\ CanWrite
    /\ muWriter' = w
    /\ wpc' = [wpc EXCEPT ![w] = "append"]
    /\ UNCHANGED <<storeVars, muReaders, wentry, widx, rpc, rlocal,
                   mutexVars, alertVars, ingestVars, loopVars, aliasVars>>

\* Store: idx := len(ms.logs); the two appends before the time index
MAppend(w) ==
    /\ wpc[w] = "append"
    /\ widx' = [widx EXCEPT ![w] = Len(logs)]
    /\ logs' = Append(logs, wentry[w])
    /\ indexByLevel' = MapAppend(indexByLevel, wentry[w].level, Len(logs))
    /\ inserted' = Append(inserted, wentry[w])
    /\ wpc' = [wpc EXCEPT ![w] = "idxLock"]
    /\ UNCHANGED <<buckets, maxLogs, lastRead, muWriter, muReaders, wentry,
                   rpc, rlocal, mutexVars, alertVars, ingestVars, loopVars,
                   aliasVars>>

\* Store and rebuildIndices: ms.indexByTime.mu.Lock()
MIdxLock(w) ==
    /\ wpc[w] \in {"idxLock", "resetLock", "loopLock"}
    /\ CanIdxLock
    /\ idxWriter' = w
    /\ wpc' = [wpc EXCEPT ![w] = AfterIdxLock(wpc[w])]
    /\ UNCHANGED <<storeVars, muWriter, muReaders, wentry, widx, rpc, rlocal,
                   muPending, idxReaders, amHolder, alertVars, ingestVars,
                   loopVars, aliasVars>>

\* Store: the bucket append, ms.indexByTime.mu.Unlock(), the capacity test
MIdxAppend(w) ==
    /\ wpc[w] = "idxAppend"
    /\ buckets' = MapAppend(buckets, TimeBucket(wentry[w].timestamp), widx[w])
    /\ idxWriter' = 0
    /\ wpc' = [wpc EXCEPT ![w] = IF mustEvict(logs, maxLogs) THEN "evict"
                                 ELSE "unlock"]
    /\ UNCHANGED <<logs, indexByLevel, maxLogs, inserted, lastRead, muWriter,
                   muReaders, wentry, widx, rpc, rlocal, muPending,
                   idxReaders, amHolder, alertVars, ingestVars, loopVars,
                   aliasVars>>

\* evictOldest: the slice; rebuildIndices: ms.indexByLevel = make(...)
MEvict(w) ==
    /\ wpc[w] = "evict"
    /\ logs' = evictSlice(logs, maxLogs)
    /\ indexByLevel' = EmptyMap
    /\ wpc' = [wpc EXCEPT ![w] = "resetLock"]
    /\ UNCHANGED <<buckets, maxLogs, inserted, lastRead, muWriter, muReaders,
                   wentry, widx, rpc, rlocal, mutexVars, alertVars,
                   ingestVars, loopVars, aliasVars>>

\* rebuildIndices: buckets = make(...); ms.indexByTime.mu.Unlock()
MReset(w) ==
    /\ wpc[w] = "reset"
    /\ buckets' = EmptyMap
    /\ idxWriter' = 0
    /\ widx' = [widx EXCEPT ![w] = 0]
    /\ wpc' = [wpc EXCEPT ![w] = "loop"]
    /\ UNCHANGED <<logs, indexByLevel, maxLogs, inserted, lastRead, muWriter,
                   muReaders, wentry, rpc, rlocal, muPending, idxReaders,
                   amHolder, alertVars, ingestVars, loopVars, aliasVars>>

\* rebuildIndices: for idx, log := range ms.logs, the level append
MLoop(w) ==
    /\ wpc[w] = "loop"
    /\ IF widx[w] < Len(logs)
       THEN /\ indexByLevel' = MapAppend(indexByLevel,
                                         LogAt(logs, widx[w]).level, widx[w])
            /\ wpc' = [wpc EXCEPT ![w] = "loopLock"]
       ELSE /\ indexByLevel' = indexByLevel
            /\ wpc' = [wpc EXCEPT ![w] = "unlock"]
    /\ UNCHANGED <<logs, buckets, maxLogs, inserted, lastRead, muWriter,
                   muReaders, wentry, widx, rpc, rlocal, mutexVars,
                   alertVars, ingestVars, loopVars, aliasVars>>

\* rebuildIndices: the bucket append, ms.indexByTime.mu.Unlock(), next idx
MLoopAppend(w) ==
    /\ wpc[w] = "loopAppend"
    /\ buckets' = MapAppend(buckets,
                            TimeBucket(LogAt(logs, widx[w]).timestamp),
                            widx[w])
    /\ idxWriter' = 0
    /\ widx' = [widx EXCEPT ![w] = widx[w] + 1]
    /\ wpc' = [wpc EXCEPT ![w] = "loop"]
    /\ UNCHANGED <<logs, indexByLevel, maxLogs, inserted, lastRead, muWriter,
                   muReaders, wentry, rpc, rlocal, muPending, idxReaders,
                   amHolder, alertVars, ingestVars, loopVars, aliasVars>>

\* Store: the deferred ms.mu.Unlock(); the worker goes on to ProcessLog
MUnlock(w) ==
    /\ wpc[w] = "unlock"
    /\ muWriter' = 0
    /\ muPending' = 0
    /\ widx' = [widx EXCEPT ![w] = 0]
    /\ wpc' = [wpc EXCEPT ![w] = "amLock"]
    /\ UNCHANGED <<storeVars, muReaders, wentry, rpc, rlocal, idxWriter,
                   idxReaders, amHolder, alertVars, ingestVars, loopVars,
                   aliasVars>>

\* ProcessLog: am.mu.Lock()
MAmLock(w) ==
    /\ wpc[w] = "amLock"
    /\ CanAmLock
    /\ amHolder' = w
    /\ wpc' = [wpc EXCEPT ![w] = "process"]
    /\ UNCHANGED <<storeVars, muWriter, muReaders, wentry, widx, rpc, rlocal,
                   muPending, idxWriter, idxReaders, alertVars, ingestVars,
                   loopVars, aliasVars>>

\* ProcessLog: the body and the deferred am.mu.Unlock()
MProcess(w) ==
    /\ wpc[w] = "process"
    /\ LET r == ProcessLogResult(rules, recentLogs, alertChannel, alertClosed,
                                 now, wentry[w])
       IN /\ recentLogs' = r.recent
          /\ alertChannel' = r.chan
          /\ lastProcess' = [log |-> wentry[w], at |-> now,
                             attempts |-> r.attempts,
                             discarded |-> r.discarded,
                             panicked |-> r.panicked]
          /\ sentAlerts' = sentAlerts \o r.sent
          /\ crashed' = IF r.panicked THEN SendOnClosed ELSE crashed
    /\ processCalls' = processCalls + 1
    /\ amHolder' = 0
    /\ wentry' = [wentry EXCEPT ![w] = NoEntry]
    /\ wpc' = [wpc EXCEPT ![w] = "idle"]
    /\ UNCHANGED <<rules, alertClosed, now, storeVars, muWriter, muReaders,
                   widx, rpc, rlocal, muPending, idxWriter, idxReaders,
                   ingestVars, loopPc, callbacks, aliasVars>>

\* a reader calls one of the four reads
MReadCall(r, op) ==
    /\ rpc[r] = "idle"
    /\ rlocal' = [rlocal EXCEPT ![r] = op]
    /\ rpc' = [rpc EXCEPT ![r] = IF op = "GetByTimeRange" THEN TimeRangeFirst
                                 ELSE "rlock"]
    /\ UNCHANGED <<storeVars, muWriter, muReaders, wpc, wentry, widx,
                   mutexVars, alertVars, ingestVars, loopVars, aliasVars>>

\* the reads: ms.mu.RLock()
MRLock(r) ==
    /\ rpc[r] = "rlock"
    /\ CanRead
    /\ muReaders' = muReaders \cup {r}
    /\ rpc' = [rpc EXCEPT ![r] = IF rlocal[r] = "GetByTimeRange"
                                 THEN "idxRLock" ELSE "read"]
    /\ UNCHANGED <<storeVars, muWriter, wpc, wentry, widx, rlocal,
                   mutexVars, alertVars, ingestVars, loopVars, aliasVars>>

\* GetByTimeRange: ms.indexByTime.mu.RLock()
MIdxRLock(r) ==
    /\ rpc[r] = "idxRLock"
    /\ CanIdxRLock
    /\ idxReaders' = idxReaders \cup {r}
    /\ rpc' = [rpc EXCEPT ![r] = "read"]
    /\ UNCHANGED <<storeVars, muWriter, muReaders, wpc, wentry, widx, rlocal,
                   muPending, idxWriter, amHolder, alertVars, ingestVars,
                   loopVars, aliasVars>>

\* the body of the read, under the locks it has taken; it changes nothing
\* of the store
MRead(r) ==
    /\ rpc[r] = "read"
    /\ rpc' = [rpc EXCEPT ![r] = IF rlocal[r] = "GetByTimeRange"
                                 THEN "idxRUnlock" ELSE "runlock"]
    /\ UNCHANGED <<storeVars, muWriter, muReaders, wpc, wentry, widx, rlocal,
                   mutexVars, alertVars, ingestVars, loopVars, aliasVars>>

\* GetByTimeRange: the deferred ms.indexByTime.mu.RUnlock()
MIdxRUnlock(r) ==
    /\ rpc[r] = "idxRUnlock"
    /\ idxReaders' = idxReaders \ {r}
    /\ rpc' = [rpc EXCEPT ![r] = "runlock"]
    /\ UNCHANGED <<storeVars, muWriter, muReaders, wpc, wentry, widx, rlocal,
                   muPending, idxWriter, amHolder, alertVars, ingestVars,
                   loopVars, aliasVars>>

\* the reads: the deferred ms.mu.RUnlock()
MRUnlock(r) ==
    /\ rpc[r] = "runlock"
    /\ muReaders' = muReaders \ {r}
    /\ rlocal' = [rlocal EXCEPT ![r] = NoOp]
    /\ rpc' = [rpc EXCEPT ![r] = "idle"]
    /\ UNCHANGED <<storeVars, muWriter, wpc, wentry, widx, mutexVars,
                   alertVars, ingestVars, loopVars, aliasVars>>

\* one step of worker w
MWorkerStep(w) ==
    \/ MStoreCall(w)
    \/ MAnnounce(w)
    \/ MAcquire(w)
    \/ MAppend(w)
    \/ MIdxLock(w)
    \/ MIdxAppend(w)
    \/ MEvict(w)
    \/ MReset(w)
    \/ MLoop(w)
    \/ MLoopAppend(w)
    \/ MUnlock(w)
    \/ MAmLock(w)
    \/ MProcess(w)

\* one step of a read that reader r has called
MReaderStep(r) ==
    \/ MRLock(r)
    \/ MIdxRLock(r)
    \/ MRead(r)
    \/ MIdxRUnlock(r)
    \/ MRUnlock(r)

NextMutex ==
    \/ \E w \in Writers : MStoreCall(w)
    \/ \E w \in Writers : MAnnounce(w)
    \/ \E w \in Writers : MAcquire(w)
    \/ \E w \in Writers : MAppend(w)
    \/ \E w \in Writers : MIdxLock(w)
    \/ \E w \in Writers : MIdxAppend(w)
    \/ \E w \in Writers : MEvict(w)
    \/ \E w \in Writers : MReset(w)
    \/ \E w \in Writers : MLoop(w)
    \/ \E w \in Writers : MLoopAppend(w)
    \/ \E w \in Writers : MUnlock(w)
    \/ \E w \in Writers : MAmLock(w)
    \/ \E w \in Writers : MProcess(w)
    \/ \E r \in Readers, op \in ReadOps : MReadCall(r, op)
    \/ \E r \in Readers : MRLock(r)
    \/ \E r \in Readers : MIdxRLock(r)
    \/ \E r \in Readers : MRead(r)
    \/ \E r \in Readers : MIdxRUnlock(r)
    \/ \E r \in Readers : MRUnlock(r)

SpecMutex == InitMutex /\ [][NextMutex]_vars

\* every goroutine that can take a step is scheduled again
SpecMutexFair ==
    /\ SpecMutex
    /\ \A w \in Writers : WF_vars(MWorkerStep(w))
    /\ \A r \in Readers : WF_vars(MReaderStep(r))

---------------------------------------------------------------------------
(* SpecAlert: one AlertManager: rules are added, entries are processed and
   the clock advances *)

\* half a minute: the step of the clock and the shortest rule window
HalfMinute == Minute \div 2

\* the rules AddRule is called with
RuleChoices ==
    {[name |-> "errors", level |-> "ERROR", threshold |-> 3,
      window |-> HalfMinute, pattern |-> <<>>],
     [name |-> "db", level |-> "ERROR", threshold |-> 1,
      window |-> Minute, pattern |-> <<"d", "b">>]}

\* the (level, message) pairs of the entries processed
ProcessKinds ==
    {<<"ERROR", <<"x", "d", "b">>>>, <<"ERROR", <<"o", "k">>>>,
     <<"INFO", <<"d", "b">>>>}

\* an entry is stamped with the clock or, by its producer, half a minute
\* ahead of it
StampOffsets == {0, HalfMinute}

InitAlert ==
    /\ NewAlertManager
    /\ now = 0
    /\ NewMemoryStore(MaxCapacity)
    /\ InitLock
    /\ NewIngestor(0, 1)

\* AlertManager.AddRule(rule)
AddRule(rule) ==
    /\ Len(rules) < MaxRules
    /\ rules' = Append(rules, rule)
    /\ UNCHANGED <<recentLogs, alertChannel, alertClosed, now, processCalls,
                   lastProcess, storeVars, lockVars, ingestVars,
                   loopVars, aliasVars>>

\* AlertManager.ProcessLog(log)
DoProcessLog(level, msg, offset) ==
    /\ processCalls < MaxProcess
    /\ LET log == LogEntry(processCalls + 1, level, now + offset, msg)
           r == ProcessLogResult(rules, recentLogs, alertChannel, alertClosed,
                                 now, log)
       IN /\ recentLogs' = r.recent
          /\ alertChannel' = r.chan
          /\ lastProcess' = [log |-> log, at |-> now, attempts |-> r.attempts,
                             discarded |-> r.discarded, panicked |-> r.panicked]
          /\ sentAlerts' = sentAlerts \o r.sent
          /\ crashed' = IF r.panicked THEN SendOnClosed ELSE crashed
    /\ processCalls' = processCalls + 1
    /\ UNCHANGED <<rules, alertClosed, now, storeVars, lockVars, ingestVars,
                   loopPc, callbacks, aliasVars>>

\* time passes
Tick ==
    /\ now < MaxTicks * HalfMinute
    /\ now' = now + HalfMinute
    /\ UNCHANGED <<rules, recentLogs, alertChannel, alertClosed, processCalls,
                   lastProcess, storeVars, lockVars, ingestVars,
                   loopVars, aliasVars>>

NextAlert ==
    \/ \E rule \in RuleChoices : AddRule(rule)
    \/ \E k \in ProcessKinds, offset \in StampOffsets :
          DoProcessLog(k[1], k[2], offset)
    \/ Tick

SpecAlert == InitAlert /\ [][NextAlert]_vars

---------------------------------------------------------------------------
(* SpecAlias: the MemoryStore with the backing arrays of its slices. ms.logs
   is a slice: an array, an offset into it and a length; its capacity is
   what is left of the array after the offset. A read hands a slice to its
   caller, who may then write into it. *)

\* the level a caller writes into an entry of a result it was given
CallerLevel == "WARNING"

\* runtime growslice for an append of one element: a capacity below 256 is
\* doubled (for the 96-byte LogEntry the allocator's size classes leave the
\* doubled capacities of this model as they are)
GrowCap(cap) == IF cap = 0 THEN 1 ELSE 2 * cap

\* the elements of the slice (arr, off, len)
SliceView(heap, arr, off, len) ==
    IF arr = 0 THEN <<>> ELSE SubSeq(heap[arr], off + 1, off + len)

\* ms.logs = append(ms.logs, entry), then evictOldest's ms.logs[evictCount:]:
\* the heap, the array and the offset of ms.logs afterwards
AppendSlice(heap, arr, off, l, max, entry) ==
    LET inPlace == Len(l) < Len(heap[arr]) - off
        grown == l \o <<entry>> \o
                 NewArray(GrowCap(Len(heap[arr]) - off) - Len(l) - 1)
        heap1 == IF inPlace
                 THEN [heap EXCEPT ![arr][off + Len(l) + 1] = entry]
                 ELSE Append(heap, grown)
        arr1 == IF inPlace THEN arr ELSE Len(heap) + 1
        off1 == IF inPlace THEN off ELSE 0
    IN [heap |-> heap1, arr |-> arr1,
        off |-> IF mustEvict(Append(l, entry), max)
                THEN off1 + evictCount(max) ELSE off1]

(* The garbage collector: an array no slice points into is freed. The heap
   is kept as the array of ms.logs first, then the array of the caller's
   result when that is another one. *)
Collect(heap, arr, h) ==
    LET apart == h.arr # 0 /\ h.arr # arr
    IN [heap |-> IF apart THEN <<heap[arr], heap[h.arr]>> ELSE <<heap[arr]>>,
        arr |-> 1,
        held |-> [h EXCEPT !.arr = IF h.arr = 0 THEN 0
                                   ELSE IF apart THEN 2 ELSE 1]]

InitAlias ==
    /\ \E max \in 1..MaxCapacity : NewMemoryStore(max)
    /\ InitLock
    /\ InitRest

\* MemoryStore.Store(entry)
AStore(level, ts) ==
    /\ Len(inserted) < MaxAliasStores
    /\ LET entry == LogEntry(Len(inserted) + 1, level, ts, <<>>)
           r == StoreResult(logs, indexByLevel, buckets, maxLogs, entry)
           a == AppendSlice(arrays, logsArr, logsOff, logs, maxLogs, entry)
           c == Collect(a.heap, a.arr, held)
       IN /\ logs' = r.logs
          /\ indexByLevel' = r.byLevel
          /\ buckets' = r.byTime
          /\ inserted' = Append(inserted, entry)
          /\ arrays' = c.heap
          /\ logsArr' = c.arr
          /\ held' = c.held
          /\ logsOff' = a.off
    /\ UNCHANGED <<maxLogs, lastRead, lockVars, alertVars, ingestVars,
                   loopVars>>

\* MemoryStore.GetRecent(n): return ms.logs[start:]
AGetRecent(n) ==
    /\ LET start == IF Len(logs) - n < 0 THEN 0 ELSE Len(logs) - n
           c == Collect(arrays, logsArr,
                        [op |-> "GetRecent", arr |-> logsArr,
                         off |-> logsOff + start, len |-> Len(logs) - start])
       IN /\ arrays' = c.heap
          /\ logsArr' = c.arr
          /\ held' = c.held
    /\ UNCHANGED <<storeVars, logsOff, lockVars, alertVars, ingestVars,
                   loopVars>>

\* MemoryStore.GetByLevel(level): result is made by the call and filled with
\* append
AGetByLevel(level) ==
    /\ LET result == GetByLevel(logs, indexByLevel, level)
           c == Collect(Append(arrays, result), logsArr,
                        [op |-> "GetByLevel", arr |-> Len(arrays) + 1,
                         off |-> 0, len |-> Len(result)])
       IN /\ arrays' = c.heap
          /\ logsArr' = c.arr
          /\ held' = c.held
    /\ UNCHANGED <<storeVars, logsOff, lockVars, alertVars, ingestVars,
                   loopVars>>

\* MemoryStore.GetByTimeRange(start, end): result is made by the call and
\* filled with append
AGetByTimeRange(start, end) ==
    /\ LET result == GetByTimeRange(logs, buckets, start, end)
           c == Collect(Append(arrays, result), logsArr,
                        [op |-> "GetByTimeRange", arr |-> Len(arrays) + 1,
                         off |-> 0, len |-> Len(result)])
       IN /\ arrays' = c.heap
          /\ logsArr' = c.arr
          /\ held' = c.held
    /\ UNCHANGED <<storeVars, logsOff, lockVars, alertVars, ingestVars,
                   loopVars>>

\* the caller of a read writes into the result: result[i].Level = ...
CallerWrite(i) ==
    /\ held.op # "none"
    /\ i \in 1..held.len
    /\ arrays[held.arr][held.off + i].level # CallerLevel
    /\ arrays' = [arrays EXCEPT ![held.arr][held.off + i].level = CallerLevel]
    /\ logs' = SliceView(arrays', logsArr, logsOff, Len(logs))
    /\ UNCHANGED <<indexByLevel, buckets, maxLogs, inserted, lastRead,
                   logsArr, logsOff, held, lockVars, alertVars, ingestVars,
                   loopVars>>

NextAlias ==
    \/ \E k \in EntryKinds : AStore(k[1], k[2])
    \/ \E n \in 0..MaxRecent : AGetRecent(n)
    \/ \E level \in Levels : AGetByLevel(level)
    \/ \E start, end \in Timestamps : AGetByTimeRange(start, end)
    \/ \E i \in 1..MaxRecent : CallerWrite(i)

SpecAlias == InitAlias /\ [][NextAlias]_vars

---------------------------------------------------------------------------
(* SpecEmit and SpecLoop: the AlertManager with its consumer loop
   (processAlerts), the callbacks the loop starts and Stop. An unrecovered
   panic in a goroutine ends the program: nothing runs after it. In SpecEmit
   every callback stalls and ProcessLog is called until the channel
   overflows; in SpecLoop a callback may also return or panic. *)

\* the rules added before the first entry is processed
LoopRules ==
    <<[name |-> "errors", level |-> "ERROR", threshold |-> 3,
       window |-> HalfMinute, pattern |-> <<>>],
      [name |-> "db", level |-> "ERROR", threshold |-> 1,
       window |-> Minute, pattern |-> <<"d", "b">>]>>

\* the program is running: no goroutine has ended it with a panic
Running == crashed = NoCrash

InitLoop ==
    /\ NewAlertManager
    /\ now = 0
    /\ NewMemoryStore(MaxCapacity)
    /\ InitLock
    /\ NewIngestor(0, 1)

\* AlertManager.AddRule, once for each of LoopRules
AddLoopRules ==
    /\ Running
    /\ rules = <<>>
    /\ processCalls = 0
    /\ rules' = LoopRules
    /\ UNCHANGED <<recentLogs, alertChannel, alertClosed, now, processCalls,
                   lastProcess, storeVars, lockVars, ingestVars, loopVars,
                   aliasVars>>

\* AlertManager.Start(): go am.processAlerts()
AlertStart ==
    /\ Running
    /\ loopPc = "new"
    /\ loopPc' = "running"
    /\ UNCHANGED <<rules, recentLogs, alertChannel, alertClosed, now,
                   processCalls, lastProcess, callbacks, crashed, sentAlerts,
                   storeVars, lockVars, ingestVars, aliasVars>>

\* AlertManager.ProcessLog(log), called by a worker: a panic in it is not
\* recovered and ends the program
LoopProcessLog(maxCalls) ==
    /\ Running
    /\ rules # <<>>
    /\ processCalls < maxCalls
    /\ LET log == LogEntry(processCalls + 1, "ERROR", now, <<"x", "d", "b">>)
           r == ProcessLogResult(rules, recentLogs, alertChannel, alertClosed,
                                 now, log)
       IN /\ recentLogs' = r.recent
          /\ alertChannel' = r.chan
          /\ lastProcess' = [log |-> log, at |-> now, attempts |-> r.attempts,
                             discarded |-> r.discarded, panicked |-> r.panicked]
          /\ sentAlerts' = sentAlerts \o r.sent
          /\ crashed' = IF r.panicked THEN SendOnClosed ELSE crashed
    /\ processCalls' = processCalls + 1
    /\ UNCHANGED <<rules, alertClosed, now, loopPc, callbacks, storeVars,
                   lockVars, ingestVars, aliasVars>>

\* processAlerts: the guard of one iteration of for alert := range
\* am.alertChannel; it does not mention the callbacks started earlier
CanConsume ==
    /\ Running
    /\ loopPc = "running"
    /\ Len(alertChannel) > 0

\* processAlerts: one iteration: receive an alert, go am.alertCallback(alert)
LConsume ==
    /\ CanConsume
    /\ alertChannel' = Tail(alertChannel)
    /\ callbacks' = Append(callbacks, [alert |-> Head(alertChannel),
                                       state |-> "running"])
    /\ UNCHANGED <<rules, recentLogs, alertClosed, now, processCalls,
                   lastProcess, loopPc, crashed, sentAlerts, storeVars,
                   lockVars, ingestVars, aliasVars>>

\* processAlerts: the range loop ends when the channel is closed and empty
LExit ==
    /\ Running
    /\ loopPc = "running"
    /\ alertClosed
    /\ Len(alertChannel) = 0
    /\ loopPc' = "exited"
    /\ UNCHANGED <<rules, recentLogs, alertChannel, alertClosed, now,
                   processCalls, lastProcess, callbacks, crashed, sentAlerts,
                   storeVars, lockVars, ingestVars, aliasVars>>

\* a callback returns
CbReturn(i) ==
    /\ Running
    /\ callbacks[i].state = "running"
    /\ callbacks' = [callbacks EXCEPT ![i].state = "returned"]
    /\ UNCHANGED <<rules, recentLogs, alertChannel, alertClosed, now,
                   processCalls, lastProcess, loopPc, crashed, sentAlerts,
                   storeVars, lockVars, ingestVars, aliasVars>>

\* a callback panics: go am.alertCallback(alert) has no recover, the panic
\* ends the program
CbPanic(i) ==
    /\ Running
    /\ callbacks[i].state = "running"
    /\ callbacks' = [callbacks EXCEPT ![i].state = "panicked"]
    /\ crashed' = CallbackPanic
    /\ UNCHANGED <<rules, recentLogs, alertChannel, alertClosed, now,
                   processCalls, lastProcess, loopPc, sentAlerts, storeVars,
                   lockVars, ingestVars, aliasVars>>

\* AlertManager.Stop(): close(am.alertChannel); called once
AlertStop ==
    /\ Running
    /\ ~alertClosed
    /\ alertClosed' = TRUE
    /\ UNCHANGED <<rules, recentLogs, alertChannel, now, processCalls,
                   lastProcess, loopVars, storeVars, lockVars, ingestVars,
                   aliasVars>>

NextEmit ==
    \/ AddLoopRules
    \/ AlertStart
    \/ LoopProcessLog(MaxEmit)
    \/ LConsume
    \/ LExit
    \/ AlertStop

SpecEmit == InitLoop /\ [][NextEmit]_vars

NextLoop ==
    \/ AddLoopRules
    \/ AlertStart
    \/ LoopProcessLog(MaxLoopCalls)
    \/ LConsume
    \/ LExit
    \/ \E i \in 1..Len(callbacks) : CbReturn(i)
    \/ \E i \in 1..Len(callbacks) : CbPanic(i)
    \/ AlertStop

SpecLoop == InitLoop /\ [][NextLoop]_vars

\* the scheduler runs the loop's goroutine whenever it can take a step
SpecLoopFair ==
    SpecLoop /\ WF_vars(LConsume) /\ WF_vars(LExit)

---------------------------------------------------------------------------
(* Spec: the Ingestor wired as in main(): producers call Ingest, Start
   launches the workers, each worker stores and evaluates what it receives,
   Stop is called once, after Start. *)

Workers == 1..workerCount

\* main: the two rules added before Start
DefaultRules ==
    <<[name |-> "High Error Rate", level |-> "ERROR", threshold |-> 10,
       window |-> Minute, pattern |-> <<>>],
      [name |-> "Critical Errors", level |-> "CRITICAL", threshold |-> 3,
       window |-> HalfMinute, pattern |-> <<>>]>>

Init ==
    /\ \E workers \in 0..MaxWorkers, size \in 1..MaxBuffer :
          NewIngestor(workers, size)
    /\ NewMemoryStore(MaxCapacity)
    /\ InitLock
    /\ NewAlertManager
    /\ now = 0

\* main: alertMgr.AddRule(...) twice, before the ingestor is started
AddDefaultRules ==
    /\ rules = <<>>
    /\ ~started
    /\ ingestCalls = 0
    /\ rules' = DefaultRules
    /\ UNCHANGED <<recentLogs, alertChannel, alertClosed, now, processCalls,
                   lastProcess, storeVars, lockVars, ingestVars,
                   loopVars, aliasVars>>

\* Ingestor.Start()
Start ==
    /\ ~started
    /\ stopPc = "idle"
    /\ started' = TRUE
    /\ wg' = wg + workerCount
    /\ kpc' = [w \in Workers |-> "select"]
    /\ UNCHANGED <<logChannel, bufferSize, logClosed, shutdown, workerCount,
                   klog, TotalProcessed, TotalDropped, stopPc, ingestCalls,
                   accepted, rejected, lastIngest, counted, phantoms,
                   storeVars, lockVars, alertVars,
                   loopVars, aliasVars>>

\* Ingestor.Ingest(entry); handleIngest stamps the entry with the clock
Ingest ==
    /\ ingestCalls < MaxIngest
    /\ LET entry == LogEntry(ingestCalls + 1, "ERROR", now, <<"o", "k">>)
           outcome == IngestOutcome(logChannel, bufferSize, logClosed)
       IN /\ lastIngest' = [entry |-> entry, result |-> outcome]
          /\ logChannel' = IF outcome = "true" THEN Append(logChannel, entry)
                           ELSE logChannel
          /\ accepted' = IF outcome = "true" THEN Append(accepted, entry.id)
                         ELSE accepted
          /\ TotalDropped' = IF outcome = "false" THEN TotalDropped + 1
                             ELSE TotalDropped
          /\ rejected' = IF outcome = "false" THEN rejected + 1 ELSE rejected
    /\ ingestCalls' = ingestCalls + 1
    /\ UNCHANGED <<bufferSize, logClosed, shutdown, workerCount, wg, started,
                   kpc, klog, TotalProcessed, stopPc, counted, phantoms,
                   storeVars, lockVars, alertVars,
                   loopVars, aliasVars>>

\* worker: select takes case log := <-ing.logChannel
WReceive(w) ==
    /\ kpc[w] = "select"
    /\ CanReceive
    /\ IF Len(logChannel) > 0
       THEN /\ klog' = [klog EXCEPT ![w] = Head(logChannel)]
            /\ logChannel' = Tail(logChannel)
            /\ phantoms' = phantoms
       ELSE /\ phantoms < MaxPhantoms
            /\ klog' = [klog EXCEPT ![w] = ZeroEntry]
            /\ logChannel' = logChannel
            /\ phantoms' = phantoms + 1
    /\ kpc' = [kpc EXCEPT ![w] = AfterReceive]
    /\ UNCHANGED <<bufferSize, logClosed, shutdown, workerCount, wg, started,
                   TotalProcessed, TotalDropped, stopPc, ingestCalls, accepted,
                   rejected, lastIngest, counted, storeVars, lockVars,
                   alertVars, loopVars, aliasVars>>

\* worker: select takes case <-ing.shutdown; return; the deferred wg.Done()
WShutdown(w) ==
    /\ kpc[w] = "select"
    /\ CanShutdown
    /\ kpc' = [kpc EXCEPT ![w] = "exited"]
    /\ wg' = wg - 1
    /\ UNCHANGED <<logChannel, bufferSize, logClosed, shutdown, workerCount,
                   started, klog, TotalProcessed, TotalDropped, stopPc,
                   ingestCalls, accepted, rejected, lastIngest, counted,
                   phantoms, storeVars, lockVars, alertVars,
                   loopVars, aliasVars>>

\* worker: ing.store.Store(log)
WStore(w) ==
    /\ kpc[w] = "store"
    /\ LET r == StoreResult(logs, indexByLevel, buckets, maxLogs, klog[w])
       IN /\ logs' = r.logs
          /\ indexByLevel' = r.byLevel
          /\ buckets' = r.byTime
    /\ inserted' = Append(inserted, klog[w])
    /\ kpc' = [kpc EXCEPT ![w] = "process"]
    /\ UNCHANGED <<maxLogs, lastRead, lockVars, alertVars, logChannel,
                   bufferSize, logClosed, shutdown, workerCount, wg, started,
                   klog, TotalProcessed, TotalDropped, stopPc, ingestCalls,
                   accepted, rejected, lastIngest, counted, phantoms,
                   loopVars, aliasVars>>

\* worker: if ing.alertManager != nil { ing.alertManager.ProcessLog(log) }
WProcess(w) ==
    /\ kpc[w] = "process"
    /\ LET r == ProcessLogResult(rules, recentLogs, alertChannel, alertClosed,
                                 now, klog[w])
       IN /\ recentLogs' = r.recent
          /\ alertChannel' = r.chan
          /\ lastProcess' = [log |-> klog[w], at |-> now,
                             attempts |-> r.attempts,
                             discarded |-> r.discarded,
                             panicked |-> r.panicked]
          /\ sentAlerts' = sentAlerts \o r.sent
          /\ crashed' = IF r.panicked THEN SendOnClosed ELSE crashed
    /\ processCalls' = processCalls + 1
    /\ kpc' = [kpc EXCEPT ![w] = "count"]
    /\ UNCHANGED <<rules, alertClosed, now, storeVars, lockVars, logChannel,
                   bufferSize, logClosed, shutdown, workerCount, wg, started,
                   klog, TotalProcessed, TotalDropped, stopPc, ingestCalls,
                   accepted, rejected, lastIngest, counted, phantoms,
                   loopPc, callbacks, aliasVars>>

\* worker: atomic.AddUint64(&ing.stats.TotalProcessed, 1), then the loop
WCount(w) ==
    /\ kpc[w] = "count"
    /\ TotalProcessed' = TotalProcessed + 1
    /\ counted' = Append(counted, klog[w].id)
    /\ klog' = [klog EXCEPT ![w] = NoEntry]
    /\ kpc' = [kpc EXCEPT ![w] = AfterCount]
    /\ UNCHANGED <<logChannel, bufferSize, logClosed, shutdown, workerCount,
                   wg, started, TotalDropped, stopPc, ingestCalls, accepted,
                   rejected, lastIngest, phantoms, storeVars, lockVars,
                   alertVars,
                   loopVars, aliasVars>>

\* Stop: close(ing.shutdown)
StopSignal ==
    /\ started
    /\ stopPc = "idle"
    /\ shutdown' = TRUE
    /\ stopPc' = "closeQueue"
    /\ UNCHANGED <<logChannel, bufferSize, logClosed, workerCount, wg, started,
                   kpc, klog, TotalProcessed, TotalDropped, ingestCalls,
                   accepted, rejected, lastIngest, counted, phantoms,
                   storeVars, lockVars, alertVars,
                   loopVars, aliasVars>>

\* Stop: close(ing.logChannel)
StopCloseQueue ==
    /\ stopPc = "closeQueue"
    /\ logClosed' = TRUE
    /\ stopPc' = "wait"
    /\ UNCHANGED <<logChannel, bufferSize, shutdown, workerCount, wg, started,
                   kpc, klog, TotalProcessed, TotalDropped, ingestCalls,
                   accepted, rejected, lastIngest, counted, phantoms,
                   storeVars, lockVars, alertVars,
                   loopVars, aliasVars>>

\* Stop: ing.wg.Wait() returns
StopReturn ==
    /\ stopPc = "wait"
    /\ WaitDone
    /\ stopPc' = "returned"
    /\ UNCHANGED <<logChannel, bufferSize, logClosed, shutdown, workerCount,
                   wg, started, kpc, klog, TotalProcessed, TotalDropped,
                   ingestCalls, accepted, rejected, lastIngest, counted,
                   phantoms, storeVars, lockVars, alertVars,
                   loopVars, aliasVars>>

Next ==
    \/ AddDefaultRules
    \/ Start
    \/ Ingest
    \/ \E w \in Workers : WReceive(w)
    \/ \E w \in Workers : WShutdown(w)
    \/ \E w \in Workers : WStore(w)
    \/ \E w \in Workers : WProcess(w)
    \/ \E w \in Workers : WCount(w)
    \/ StopSignal
    \/ StopCloseQueue
    \/ StopReturn

Spec == Init /\ [][Next]_vars

---------------------------------------------------------------------------
(* SpecRun: the pipeline while Stop() is never called, its goroutines
   scheduled fairly. SpecStop: the pipeline with Stop(), its goroutines
   scheduled fairly and every select choosing fairly among its ready cases *)

\* one step of worker w's loop while nothing is shut down
WorkerStep(w) ==
    /\ w \in Workers
    /\ \/ WReceive(w)
       \/ WStore(w)
       \/ WProcess(w)
       \/ WCount(w)

NextRun ==
    \/ AddDefaultRules
    \/ Start
    \/ Ingest
    \/ \E w \in Workers : WReceive(w)
    \/ \E w \in Workers : WStore(w)
    \/ \E w \in Workers : WProcess(w)
    \/ \E w \in Workers : WCount(w)

\* go ing.worker(i): the runtime runs every runnable goroutine again
SpecRun ==
    /\ Init
    /\ [][NextRun]_vars
    /\ \A w \in 1..MaxWorkers : WF_vars(WorkerStep(w))

\* worker w's select takes the shutdown case
WorkerExit(w) ==
    /\ w \in Workers
    /\ WShutdown(w)

\* a select with several ready cases chooses among them at random, so a case
\* that is ready again and again is taken (strong fairness); Stop's own
\* statements follow one another
SpecStop ==
    /\ Init
    /\ [][Next]_vars
    /\ \A w \in 1..MaxWorkers : WF_vars(WorkerStep(w))
    /\ \A w \in 1..MaxWorkers : SF_vars(WorkerExit(w))
    /\ WF_vars(StopCloseQueue)
    /\ WF_vars(StopReturn)

---------------------------------------------------------------------------
(* Properties of the store (SpecStore) *)

Min(a, b) == IF a < b THEN a ELSE b

\* the last k elements of a sequence
LastK(sq, k) == [i \in 1..k |-> sq[Len(sq) - k + i]]

\* the entries a time-range query must return, as a set
InRangeSet(start, end) ==
    {logs[i] : i \in {j \in 1..Len(logs) :
                        start <= logs[j].timestamp /\ logs[j].timestamp <= end}}

\* floor(ts / bucket width)
SpecBucket(ts) == ts \div BucketSeconds

\* res lists its entries by ascending bucket, by arrival inside a bucket
BucketOrdered(res) ==
    \A i, j \in 1..Len(res) :
        i < j => \/ SpecBucket(res[i].timestamp) < SpecBucket(res[j].timestamp)
                 \/ /\ SpecBucket(res[i].timestamp) = SpecBucket(res[j].timestamp)
                    /\ res[i].id < res[j].id

\* C4: the sequence length a reader sees never exceeds the configured
\* maximum, for every capacity >= 1 (every state of SpecStore is between two
\* calls, the write lock free).
C4_CapacityInvariant ==
    Len(logs) <= maxLogs

\* C5 as stated: after capacity+1 inserts into an empty store (one
\* eviction, taken where the eviction removes at least one entry), Count()
\* is capacity - floor(capacity/5) and the survivors are that many newest
\* entries.
C5_EvictionOutcome ==
    (Len(inserted) = maxLogs + 1 /\ maxLogs \div 5 >= 1) =>
        /\ Count(logs) = maxLogs - (maxLogs \div 5)
        /\ logs = LastK(inserted, maxLogs - (maxLogs \div 5))

\* C5 amended: after capacity+1 inserts into an empty store, Count() is
\* capacity + 1 - floor(capacity/5), and the survivors are exactly that
\* many most recently inserted entries in insertion order (the oldest
\* floor(capacity/5) entries are the ones dropped).
C5_EvictionOutcomeAmended ==
    Len(inserted) = maxLogs + 1 =>
        /\ Len(logs) = maxLogs + 1 - (maxLogs \div 5)
        /\ logs = LastK(inserted, maxLogs + 1 - (maxLogs \div 5))
        /\ lastRead.op = "Count" =>
              lastRead.result = maxLogs + 1 - (maxLogs \div 5)

\* C5's case: capacity 5, six inserts, one entry evicted, Count() read
C5_Witness ==
    /\ maxLogs = 5
    /\ Len(inserted) = 6
    /\ lastRead.op = "Count"
    /\ lastRead.result = 5
    /\ logs[1].id = 2

\* C7: N <= capacity entries stored into an empty store: Count() is N and
\* GetRecent(N) is the N entries in insertion order; for every n >= 0
\* GetRecent(n) is the last min(n, length) entries of the sequence in
\* arrival order.
C7_GetRecent ==
    /\ Len(inserted) <= maxLogs =>
          /\ logs = inserted
          /\ lastRead.op = "Count" => lastRead.result = Len(inserted)
          /\ (lastRead.op = "GetRecent" /\ lastRead.arg[1] = Len(inserted))
                => lastRead.result = inserted
    /\ lastRead.op = "GetRecent" =>
          lastRead.result = LastK(logs, Min(lastRead.arg[1], Len(logs)))

\* C7's case: three entries in a store of capacity >= 3, GetRecent(3);
\* and GetRecent(2) with more than two entries held
C7_Witness ==
    /\ lastRead.op = "GetRecent"
    /\ \/ /\ Len(inserted) = 3
          /\ maxLogs >= 3
          /\ lastRead.arg[1] = 3
          /\ Len(lastRead.result) = 3
          /\ lastRead.result[1].level # lastRead.result[3].level
       \/ /\ Len(logs) > 2
          /\ lastRead.arg[1] = 2
          /\ lastRead.result[1] = logs[Len(logs) - 1]

\* C8: GetByLevel(L) returns exactly the entries now in the sequence whose
\* level is L, each once, in arrival order; nothing for a level without a
\* surviving entry.
C8_GetByLevel ==
    /\ \A level \in QueryLevels :
          GetByLevel(logs, indexByLevel, level)
              = SelectSeq(logs, LAMBDA e : e.level = level)
    /\ lastRead.op = "GetByLevel" =>
          lastRead.result = SelectSeq(logs, LAMBDA e : e.level = lastRead.arg[1])

\* C8's case: after an eviction, GetByLevel("ERROR") returns two entries
\* that an INFO entry separates in the sequence
C8_Witness ==
    /\ lastRead.op = "GetByLevel"
    /\ lastRead.arg[1] = "ERROR"
    /\ Len(inserted) > Len(logs)
    /\ Len(lastRead.result) >= 2
    /\ \E i \in 1..Len(logs) :
          /\ logs[i].level = "INFO"
          /\ lastRead.result[1].id < logs[i].id
          /\ logs[i].id < lastRead.result[2].id

\* C9, the result: exactly the entries with start <= t <= end, each once,
\* by ascending bucket and by arrival inside a bucket
C9_RangeResult ==
    lastRead.op = "GetByTimeRange" =>
        LET res == lastRead.result
            start == lastRead.arg[1]
            end == lastRead.arg[2]
        IN /\ {res[i] : i \in 1..Len(res)} = InRangeSet(start, end)
           /\ Len(res) = Cardinality(InRangeSet(start, end))
           /\ BucketOrdered(res)

\* C9, the frame: a GetByTimeRange call changes no store state, and a
\* repeated call (nothing stored in between) returns the same result
C9_RangeStep ==
    (lastRead'.op = "GetByTimeRange") =>
        /\ UNCHANGED <<logs, indexByLevel, buckets, maxLogs>>
        /\ (lastRead.op = "GetByTimeRange" /\ lastRead.arg = lastRead'.arg)
              => lastRead'.result = lastRead.result

\* C9: GetByTimeRange(start, end) returns exactly the entries whose
\* timestamp t has start <= t <= end (both inclusive), each once, ordered
\* by ascending bucket and arrival within a bucket; it changes no store
\* state and repeating it returns the same result.
C9_GetByTimeRange ==
    []C9_RangeResult /\ [][C9_RangeStep]_vars

\* C9's case: a query whose bounds are the timestamps of two stored entries
\* returns both, the entry of the earlier bucket first although it was
\* stored later
C9_Witness ==
    /\ lastRead.op = "GetByTimeRange"
    /\ lastRead.arg = <<BucketSeconds, 2 * BucketSeconds>>
    /\ Len(lastRead.result) >= 2
    /\ lastRead.result[1].timestamp = BucketSeconds
    /\ lastRead.result[Len(lastRead.result)].timestamp = 2 * BucketSeconds
    /\ lastRead.result[1].id > lastRead.result[Len(lastRead.result)].id

---------------------------------------------------------------------------
(* Properties of the store under its lock (SpecLock) *)

\* the positions (0-based, ascending) of the entries of l that satisfy a
\* test, given as the set of the entries that pass
PositionsOf(l, pass) ==
    LET P == {i \in 0..(Len(l) - 1) : LogAt(l, i) \in pass}
        F[i \in 0..Len(l)] ==
            IF i = 0 THEN <<>>
            ELSE IF (i - 1) \in P THEN Append(F[i - 1], i - 1) ELSE F[i - 1]
    IN F[Len(l)]

EntriesOf(l) == {l[i] : i \in 1..Len(l)}

IndicesConsistent ==
    /\ \A level \in (DOMAIN indexByLevel) \cup QueryLevels :
          MapGet(indexByLevel, level)
              = PositionsOf(logs, {e \in EntriesOf(logs) : e.level = level})
    /\ \A b \in (DOMAIN buckets) \cup {SpecBucket(t) : t \in QueryTimes} :
          MapGet(buckets, b)
              = PositionsOf(logs, {e \in EntriesOf(logs) :
                                      SpecBucket(e.timestamp) = b})
    /\ \A level \in DOMAIN indexByLevel :
          \A i \in 1..Len(indexByLevel[level]) :
              indexByLevel[level][i] < Len(logs)
    /\ \A b \in DOMAIN buckets :
          \A i \in 1..Len(buckets[b]) : buckets[b][i] < Len(logs)

\* C6: in every state a reader can observe (no writer inside Store, or a
\* reader holding the lock), every indexed position is inside the sequence
\* and each index lists exactly, in ascending order, the positions of its
\* level or bucket; a GetByLevel that ran against concurrent Store calls
\* returns exactly the entries of its level in the sequence it read.
C6_IndexConsistency ==
    /\ (muWriter = 0 \/ muReaders # {}) => IndicesConsistent
    /\ \A r \in DOMAIN rpc :
          rpc[r] = "unlock" =>
              rlocal[r].result
                  = SelectSeq(logs, LAMBDA e : e.level = rlocal[r].level)

\* C6's case: a reader holds the lock on a store that has evicted and has
\* collected the surviving entries of its level
C6_Witness ==
    /\ Len(inserted) > Len(logs)
    /\ muWriter = 0
    /\ \E r \in DOMAIN rpc :
          /\ rpc[r] = "unlock"
          /\ Len(rlocal[r].result) >= 2
          /\ rlocal[r].result[1].id > 1
    /\ muReaders # {}

---------------------------------------------------------------------------
(* Properties of the evaluator (SpecAlert) *)

\* pattern occurs in message as a substring
IsSubstring(message, pattern) ==
    \E i \in 1..(Len(message) + 1), j \in 0..Len(message) :
        SubSeq(message, i, j) = pattern

\* the number of window entries that match a rule at clock value t: same
\* level, pattern empty or contained in the message, timestamp inside the
\* rule's window [t - window, t]
MatchingInWindow(rule, recent, t) ==
    Cardinality({i \in 1..Len(recent) :
        /\ recent[i].level = rule.level
        /\ (rule.pattern = <<>> \/ IsSubstring(recent[i].message, rule.pattern))
        /\ t - rule.window <= recent[i].timestamp
        /\ recent[i].timestamp <= t})

\* how many sends a call attempted for rule i
AttemptsFor(attempts, i) ==
    Cardinality({k \in 1..Len(attempts) : attempts[k] = i})

\* C10: every ProcessLog call attempts exactly one alert send for each rule
\* whose number of matching window entries (level, pattern, inside the
\* rule's window) is >= the rule's threshold, and none for a rule below its
\* threshold.
C10_ThresholdRule ==
    [][processCalls' # processCalls =>
          \A i \in 1..Len(rules') :
              AttemptsFor(lastProcess'.attempts, i)
                  = IF MatchingInWindow(rules'[i], recentLogs', lastProcess'.at)
                          >= rules'[i].threshold
                    THEN 1 ELSE 0]_vars

---------------------------------------------------------------------------
(* Properties of the ingestor (Spec) *)

SeqToSet(sq) == {sq[i] : i \in 1..Len(sq)}

NoDuplicates(sq) == \A i, j \in 1..Len(sq) : sq[i] = sq[j] => i = j

\* every worker waits in its select, holding no entry
AllWorkersIdle == \A w \in Workers : kpc[w] = "select"

\* C1: TotalDropped is the number of Ingest calls that returned false;
\* TotalProcessed is at most the number that returned true, each accepted
\* entry counted at most once; with the queue empty, every worker idle and
\* Stop not called, TotalProcessed + TotalDropped is the number of completed
\* Ingest calls.
C1_Accounting ==
    /\ TotalDropped = rejected
    /\ TotalProcessed <= Len(accepted)
    /\ NoDuplicates(counted)
    /\ SeqToSet(counted) \subseteq SeqToSet(accepted)
    /\ (Len(logChannel) = 0 /\ AllWorkersIdle /\ stopPc = "idle")
          => TotalProcessed + TotalDropped = ingestCalls

\* C2, the queue bound: the queue never holds more than its capacity
C2_QueueBound == Len(logChannel) <= bufferSize

\* C2, one Ingest call: it completes with true or false; true exactly when
\* the entry was placed on the queue; false exactly when the queue already
\* held its capacity, and then the queue is unchanged and TotalDropped
\* grows by 1
C2_IngestStep ==
    (ingestCalls' # ingestCalls) =>
        /\ lastIngest'.result \in {"true", "false"}
        /\ (lastIngest'.result = "true")
              <=> (logChannel' = Append(logChannel, lastIngest'.entry))
        /\ (lastIngest'.result = "false") <=> (Len(logChannel) = bufferSize)
        /\ (lastIngest'.result = "false")
              => (logChannel' = logChannel /\ TotalDropped' = TotalDropped + 1)

\* C2: Ingest never waits: each call completes in one step, returning true
\* exactly when the entry was placed on the queue and false exactly when
\* the queue already held its capacity (queue unchanged, TotalDropped + 1);
\* the queue length never exceeds the capacity.
C2_IngestNeverWaits ==
    []C2_QueueBound /\ [][C2_IngestStep]_vars

\* C3, the state: once Stop has returned, every worker has exited
C3_AllExited ==
    (stopPc = "returned") => \A w \in Workers : kpc[w] = "exited"

\* C3, the steps: after Stop has returned nothing is stored, evaluated or
\* counted
C3_NothingAfterStop ==
    (stopPc = "returned") =>
        UNCHANGED <<logs, inserted, recentLogs, processCalls, TotalProcessed>>

\* C3: Stop() returns only after every worker started by Start() has exited,
\* and after Stop() has returned no worker performs a Store call, a
\* ProcessLog call or a TotalProcessed increment.
C3_StopWaitsForWorkers ==
    []C3_AllExited /\ [][C3_NothingAfterStop]_vars

\* C3's case: Stop has returned with two workers started, at least one entry
\* processed and one entry still in the queue
C3_Witness ==
    /\ stopPc = "returned"
    /\ workerCount = 2
    /\ TotalProcessed >= 1
    /\ Len(logChannel) > 0

---------------------------------------------------------------------------
(* Properties of the alert channel, the consumer loop and the callbacks
   (SpecEmit, SpecLoop) *)

\* C11, the channel bound: the alert channel never holds more than its
\* capacity
C11_ChannelBound == Len(alertChannel) <= AlertChannelCap

\* C11, one ProcessLog call with the channel open or closed: every alert it
\* built went into the channel or was discarded, and one was discarded only
\* with the channel full
C11_EmitStep ==
    (processCalls' = processCalls + 1) =>
        /\ Len(alertChannel') =
              Len(alertChannel) + Len(lastProcess'.attempts)
                                - Len(lastProcess'.discarded)
        /\ (lastProcess'.discarded # <<>>) =>
              Len(alertChannel') = AlertChannelCap

\* C11, one ProcessLog call: it completes, in every state it is called in
C11_ProcessLogCompletes ==
    (processCalls' = processCalls + 1) => ~lastProcess'.panicked

\* C11: the alert channel never holds more than 100 alerts; when it is full
\* ProcessLog discards the alert and still completes; ProcessLog completes
\* without waiting for the consumer loop in every state, the loop started or
\* not, every callback stalled.
C11_BestEffortEmission ==
    /\ []C11_ChannelBound
    /\ [][C11_EmitStep /\ C11_ProcessLogCompletes]_vars

\* C11 while the channel is open: the same with the calls made after Stop()
\* left out
C11_WhileOpen ==
    /\ []C11_ChannelBound
    /\ [][~alertClosed => (C11_EmitStep /\ C11_ProcessLogCompletes)]_vars

\* a ProcessLog call found the channel full: one alert in, one discarded
C11_FullReached ==
    /\ Len(alertChannel) = AlertChannelCap
    /\ Len(lastProcess.attempts) = 2
    /\ Len(lastProcess.discarded) = 1
    /\ loopPc = "running"

\* the alerts the loop has started a callback for, in order
DispatchedAlerts == [i \in 1..Len(callbacks) |-> callbacks[i].alert]

\* C12, no loss and no duplicate: the alerts dispatched followed by the
\* alerts still in the channel are the alerts accepted, in order
C12_NoLossNoDup == DispatchedAlerts \o alertChannel = sentAlerts

\* C12, drained: the loop has exited with a callback started for every
\* accepted alert
C12_Drained ==
    /\ loopPc = "exited"
    /\ DispatchedAlerts = sentAlerts

\* C12: after Stop() closes the alert channel the running loop invokes the
\* callback once for every alert that was already in the channel and then
\* exits; no accepted alert is lost or delivered twice.
C12_StopDrains ==
    /\ []C12_NoLossNoDup
    /\ (alertClosed /\ loopPc = "running") ~> C12_Drained

\* C12 as long as the program is not ended by a panic
C12_DrainsUnlessCrashed ==
    /\ []C12_NoLossNoDup
    /\ (alertClosed /\ loopPc = "running") ~> (C12_Drained \/ ~Running)

\* C13: the loop starts a callback per consumed alert without waiting for
\* earlier callbacks; a callback that never returns or that panics does not
\* stop the loop: with an alert in the channel the running loop can take its
\* next iteration, whatever the callbacks started so far are doing.
C13_CallbackIsolation ==
    (loopPc = "running" /\ Len(alertChannel) > 0 /\ crashed # SendOnClosed)
        => CanConsume

\* C13 for the callbacks that stall or return
C13_StalledDoNotDelay ==
    (loopPc = "running" /\ Len(alertChannel) > 0 /\ Running) => CanConsume

---------------------------------------------------------------------------
(* Properties of the ingestor's construction, entries and step order (Spec) *)

\* C14: constructing a Dispatcher with worker count zero yields an error and
\* no usable Dispatcher: no state is reachable in which a Dispatcher with no
\* workers has been started and has accepted an entry through Ingest.
C14_ZeroWorkersRejected ==
    ~(workerCount = 0 /\ started /\ Len(accepted) > 0)

---------------------------------------------------------------------------
(* Properties of the slices the reads return (SpecAlias) *)

\* the result a caller holds, as the caller sees it
HeldValue == SliceView(arrays, held.arr, held.off, held.len)

\* the cells of the heap a slice (arr, off, len) covers
Cells(arr, off, len) == {<<arr, off + i>> : i \in 1..len}

\* ms.logs as the store's slice shows it
C15_LogsAreTheirSlice ==
    logs = SliceView(arrays, logsArr, logsOff, Len(logs))

\* C15, no shared storage: the result held by a caller and ms.logs have no
\* cell in common
C15_NoSharedStorage ==
    Cells(held.arr, held.off, held.len)
        \cap Cells(logsArr, logsOff, Len(logs)) = {}

\* C15, a later Store: a step that stores an entry leaves the result held by
\* the caller as it was
C15_StoreKeepsResult ==
    (inserted' # inserted /\ held' = held) => HeldValue' = HeldValue

\* C15, a change by the caller: a step that stores nothing leaves the store's
\* sequence as it was
C15_CallerKeepsStore ==
    (inserted' = inserted) => logs' = logs

\* C15: the result of GetByLevel, GetByTimeRange and GetRecent shares no
\* storage with the Store's sequence: a result already returned is not
\* changed by a later Store call, and a change the caller makes to a result
\* changes no Store state.
C15_ReadsReturnCopies ==
    /\ []C15_NoSharedStorage
    /\ [][C15_StoreKeepsResult /\ C15_CallerKeepsStore]_vars

\* C15 for the reads that build their result: GetByLevel and GetByTimeRange
C15_BuiltResultsAreCopies ==
    /\ [](held.op # "GetRecent" => C15_NoSharedStorage)
    /\ [][C15_StoreKeepsResult]_vars
    /\ [][held.op # "GetRecent" => C15_CallerKeepsStore]_vars

\* the IDs of a sequence of entries
IdsOf(sq) == [i \in 1..Len(sq) |-> sq[i].id]

\* of a sequence of IDs, those Ingest returned true for
AcceptedOnly(ids) == SelectSeq(ids, LAMBDA x : x \in SeqToSet(accepted))

IsPrefix(a, b) == Len(a) <= Len(b) /\ a = SubSeq(b, 1, Len(a))

\* C16: every entry a worker appends to the Store and passes to ProcessLog
\* is an entry for which an earlier Ingest call returned true, and each
\* accepted entry is appended at most once, in every state, also while and
\* after Stop() closes the queue.
C16_NoPhantomEntries ==
    /\ \A i \in 1..Len(inserted) : inserted[i].id \in SeqToSet(accepted)
    /\ NoDuplicates(IdsOf(inserted))
    /\ processCalls > 0 => lastProcess.log.id \in SeqToSet(accepted)

\* C16 until Stop() closes the queue
C16_UntilQueueClosed ==
    ~logClosed => C16_NoPhantomEntries

\* C17, the counters: no entry is counted before its ProcessLog call, none is
\* evaluated before its Store call
C17_Counts ==
    /\ TotalProcessed <= processCalls
    /\ processCalls <= Len(inserted)

\* C17, the steps of a worker: Store, then ProcessLog, then the increment,
\* then the next wait; it receives and exits only at the wait
C17_WorkerStep ==
    \A w \in Workers :
        /\ (kpc[w] = "store" /\ kpc'[w] # "store") =>
              /\ kpc'[w] = "process"
              /\ inserted' = Append(inserted, klog[w])
        /\ (kpc[w] = "process" /\ kpc'[w] # "process") =>
              /\ kpc'[w] = "count"
              /\ processCalls' = processCalls + 1
              /\ lastProcess'.log = klog[w]
        /\ (kpc[w] = "count" /\ kpc'[w] # "count") =>
              /\ kpc'[w] = "select"
              /\ TotalProcessed' = TotalProcessed + 1
        /\ (kpc[w] # "exited" /\ kpc'[w] = "exited") => kpc[w] = "select"
        /\ (klog'[w] # klog[w] /\ klog'[w] # NoEntry) =>
              /\ kpc[w] = "select"
              /\ kpc'[w] = "store"

\* C17: for each dequeued entry the worker completes Store.Store, then
\* Evaluator.ProcessLog, then increments TotalProcessed, and does not dequeue
\* the next entry before that; TotalProcessed is at most the number of
\* completed Store appends; shutdown never abandons an in-flight Store or
\* ProcessLog call.
C17_StepOrder ==
    /\ []C17_Counts
    /\ [][C17_WorkerStep]_vars

\* C17's case: after the shutdown signal a worker is still inside
\* ProcessLog for its second entry, the first one counted
C17_Witness ==
    /\ shutdown
    /\ TotalProcessed = 1
    /\ Len(inserted) = 2
    /\ \E w \in Workers : kpc[w] = "process" /\ klog[w].id = 2

\* the accepted entries that have left the queue
DequeuedIds == SeqToSet(accepted) \ SeqToSet(IdsOf(logChannel))

\* C18, the entries in flight: an accepted entry that has left the queue is
\* in the Store, or one worker holds it and has not stored it yet
C18_HeldByDequeuer ==
    \A id \in DequeuedIds :
        LET holders == {w \in Workers : kpc[w] = "store" /\ klog[w].id = id}
        IN IF id \in SeqToSet(IdsOf(inserted)) THEN holders = {}
           ELSE Cardinality(holders) = 1

\* C18, one worker: the Store's order is the order of acceptance
C18_SingleWorkerOrder ==
    workerCount = 1 => IsPrefix(AcceptedOnly(IdsOf(logs)), accepted)

\* C18, the steps of a worker: it dequeues the head of the queue, and only
\* when it holds no entry; its Store call appends the entry it holds at the
\* end of the Store's sequence
C18_WorkerFifo ==
    \A w \in Workers :
        /\ (kpc[w] = "select" /\ kpc'[w] = "store") =>
              /\ klog[w] = NoEntry
              /\ Len(logChannel) > 0 =>
                    (klog'[w] = Head(logChannel)
                     /\ logChannel' = Tail(logChannel))
        /\ (kpc[w] = "store" /\ kpc'[w] = "process") =>
              logs' = Append(logs, klog[w])

---------------------------------------------------------------------------
(* Properties of the rule evaluation and of the alerts built (SpecAlert) *)

\* the entries ProcessLog counted for a rule in the call that just ended
CountedInCall(rule) == countedFor(rule, recentLogs', lastProcess'.at)

\* C19, the upper bound: no counted entry is stamped later than now
C19_NoFutureEntry ==
    (processCalls' # processCalls) =>
        \A i \in 1..Len(rules') :
            \A k \in 1..Len(CountedInCall(rules'[i])) :
                CountedInCall(rules'[i])[k].timestamp <= lastProcess'.at

\* C19, the lower bound: no counted entry is stamped earlier than
\* now - rule.window
C19_NoOldEntry ==
    (processCalls' # processCalls) =>
        \A i \in 1..Len(rules') :
            \A k \in 1..Len(CountedInCall(rules'[i])) :
                CountedInCall(rules'[i])[k].timestamp
                    >= lastProcess'.at - rules'[i].window

\* C19: in ProcessLog an entry of the rolling window contributes to a rule's
\* count only if its timestamp lies in [now - rule.window, now]: an entry
\* stamped later than now or earlier than now - rule.window is not counted.
C19_WindowBounds ==
    [][C19_NoFutureEntry /\ C19_NoOldEntry]_vars

\* C19 for the lower bound alone
C19_LowerBoundOnly == [][C19_NoOldEntry]_vars

\* the alerts the call that just ended put into the channel
AlertsOfCall ==
    SubSeq(alertChannel', Len(alertChannel) + 1, Len(alertChannel'))

\* C20, the rule name: each alert of a call names the rule it was built for
\* and its count is at least the rule's threshold
C20_NameAndThreshold ==
    (processCalls' # processCalls /\ lastProcess'.discarded = <<>>) =>
        /\ Len(AlertsOfCall) = Len(lastProcess'.attempts)
        /\ \A k \in 1..Len(AlertsOfCall) :
              LET rule == rules'[lastProcess'.attempts[k]]
              IN /\ AlertsOfCall[k].ruleName = rule.name
                 /\ AlertsOfCall[k].count >= rule.threshold

\* C20, the count: each alert of a call carries the number of window entries
\* the call counted for its rule
C20_CountIsMatches ==
    (processCalls' # processCalls /\ lastProcess'.discarded = <<>>) =>
        \A k \in 1..Len(AlertsOfCall) :
            AlertsOfCall[k].count
                = Len(CountedInCall(rules'[lastProcess'.attempts[k]]))

\* C20: an emitted Alert's Count equals the number of rolling-window entries
\* that matched the rule when the alert was built (a value >= the rule's
\* threshold), and its RuleName is the name of the rule that fired.
C20_AlertCarriesCount ==
    [][C20_NameAndThreshold /\ C20_CountIsMatches]_vars

\* C20 without the count
C20_NameOnly == [][C20_NameAndThreshold]_vars

---------------------------------------------------------------------------
(* Properties of the calls made during and after a shutdown (Spec, SpecEmit) *)

\* C22: an Ingest call that runs concurrently with Stop() or after Stop()
\* has returned completes with true or false and never aborts its caller; no
\* Ingest call attempts to enqueue onto the closed queue.
C22_IngestSafeAgainstStop ==
    lastIngest.result \in {"none", "true", "false"}

\* C22 until Stop() closes the queue
C22_SafeUntilQueueClosed ==
    ~logClosed => C22_IngestSafeAgainstStop

\* C23: a ProcessLog call made after, or concurrently with, the Evaluator's
\* Stop() completes without failure even when a rule's threshold is met; no
\* ProcessLog call attempts a send on the closed alert channel.
C23_ProcessLogSafeAgainstStop ==
    /\ ~lastProcess.panicked
    /\ crashed # SendOnClosed

\* C23 for the calls that meet no threshold: after Stop() such a call
\* completes
C23_NoThresholdNoSend ==
    (lastProcess.attempts = <<>>) => ~lastProcess.panicked

---------------------------------------------------------------------------
(* Progress of the pipeline (SpecRun) *)

StoredIds == {inserted[i].id : i \in 1..Len(inserted)}

\* C21, first half: with a worker started and Stop() never called, every
\* entry for which Ingest returned true is eventually appended to the Store
\* and counted
C21_AcceptedIsProcessed ==
    \A id \in 1..MaxIngest :
        (started /\ workerCount >= 1 /\ id \in SeqToSet(accepted))
            ~> (id \in StoredIds /\ id \in SeqToSet(counted))

\* C21, second half: once the producers stop calling Ingest, TotalProcessed
\* eventually equals the number of accepted entries and the queue is empty,
\* and it stays so
C21_Quiescence ==
    [](started /\ workerCount >= 1
         => <>[](TotalProcessed = Len(accepted) /\ logChannel = <<>>))

\* C21: progress of ingestion under fair scheduling, when Stop() is never
\* called and at least one worker was started: every accepted entry is
\* eventually stored and counted, and TotalProcessed comes to equal the
\* number of accepted entries with the queue empty.
C21_IngestionProgress ==
    /\ C21_AcceptedIsProcessed
    /\ C21_Quiescence

\* a single worker has stored and counted every accepted entry, more of them
\* than the queue holds at once
C21_Witness ==
    /\ started
    /\ workerCount = 1
    /\ stopPc = "idle"
    /\ Len(accepted) = MaxIngest
    /\ Len(accepted) > bufferSize
    /\ TotalProcessed = Len(accepted)
    /\ SeqToSet(accepted) \subseteq StoredIds
    /\ logChannel = <<>>

---------------------------------------------------------------------------
(* Termination of Stop() (SpecStop) *)

\* a call of Stop() eventually returns
C24_StopReturns ==
    (stopPc = "closeQueue") ~> (stopPc = "returned")

\* once the shutdown signal is given, a worker that leaves its wait-point
\* leaves it by the shutdown case
C24_ExitAtNextWaitPoint ==
    [][\A w \in Workers :
         (shutdown /\ kpc[w] = "select" /\ kpc'[w] # "select")
             => kpc'[w] = "exited"]_vars

\* C24: from every reachable state with workers started, a single call of
\* Stop() eventually returns under fair scheduling, and every worker observes
\* the shutdown signal at its next wait-point.
C24_StopTerminates ==
    /\ C24_StopReturns
    /\ C24_ExitAtNextWaitPoint

\* whichever wait-point a worker leaves by the shutdown case, each worker has
\* exited when Stop() has returned
C24_ExitBeforeReturn ==
    (stopPc = "returned") => \A w \in Workers : kpc[w] = "exited"

---------------------------------------------------------------------------
(* The locks (SpecMutex, SpecMutexFair) *)

WorkerThread(w) == <<"worker", w>>
ReaderThread(r) == <<"reader", r>>
Threads ==
    {WorkerThread(w) : w \in Writers} \cup {ReaderThread(r) : r \in Readers}

WriterOf(holder) == IF holder = 0 THEN {} ELSE {WorkerThread(holder)}

\* the threads whose departure thread t is waiting for
BlockersOf(t) ==
    IF t[1] = "worker"
    THEN CASE wpc[t[2]] = "lock" -> WriterOf(muPending)
           [] wpc[t[2]] = "drain" -> {ReaderThread(r) : r \in muReaders}
           [] wpc[t[2]] \in {"idxLock", "resetLock", "loopLock"} ->
                (WriterOf(idxWriter)
                   \cup {ReaderThread(r) : r \in idxReaders})
                  \ {t}
           [] wpc[t[2]] = "amLock" -> WriterOf(amHolder)
           [] OTHER -> {}
    ELSE CASE rpc[t[2]] = "rlock" -> WriterOf(muPending)
           [] rpc[t[2]] = "idxRLock" -> WriterOf(idxWriter)
           [] OTHER -> {}

\* the threads that can run now or once threads that can run have run
RECURSIVE CanProgress(_, _)
CanProgress(S, n) ==
    IF n = 0 THEN S
    ELSE CanProgress(S \cup {t \in Threads : BlockersOf(t) \subseteq S}, n - 1)

\* no set of threads waits for one another
C25_NoCircularWait ==
    CanProgress({}, Cardinality(Threads)) = Threads

\* ms.indexByTime.mu is held only by a thread that holds ms.mu
C25_InnerUnderOuter ==
    /\ idxWriter # 0 => muWriter = idxWriter
    /\ idxReaders \subseteq muReaders

\* no worker holds ms.mu and am.mu at once
C25_NeverBothLocks ==
    \A w \in Writers : ~(amHolder = w /\ (muWriter = w \/ muPending = w))

WorkerWaits(w) ==
    wpc[w] \in {"lock", "drain", "idxLock", "resetLock", "loopLock", "amLock"}

ReaderWaits(r) == rpc[r] \in {"rlock", "idxRLock"}

\* C25: with workers calling Store and ProcessLog and readers calling the
\* four reads concurrently, no state is reachable in which threads wait for
\* one another's ms.mu, ms.indexByTime.mu or am.mu, so that none of them
\* could ever go on; ms.indexByTime.mu is only held while ms.mu is held; no
\* thread holds ms.mu and am.mu at the same time.
C25_LockDiscipline ==
    /\ C25_NoCircularWait
    /\ C25_InnerUnderOuter
    /\ C25_NeverBothLocks

\* C25 under fair scheduling (SpecMutexFair): a thread at a Lock or RLock
\* call gets the lock
C25_NoWaitForever ==
    /\ \A w \in Writers : WorkerWaits(w) ~> ~WorkerWaits(w)
    /\ \A r \in Readers : ReaderWaits(r) ~> ~ReaderWaits(r)

\* a worker rebuilds the indices under both store locks while another worker
\* waits for ms.mu and a reader of a time range waits behind it
C25_Witness ==
    \E w1 \in Writers, w2 \in Writers, r \in Readers :
        /\ wpc[w1] = "loopAppend"
        /\ muWriter = w1
        /\ idxWriter = w1
        /\ wpc[w2] = "lock"
        /\ rpc[r] = "rlock"
        /\ rlocal[r] = "GetByTimeRange"

====
